---------------------------- MODULE Spec2Model ----------------------------
(* A model of the respy / robupy excerpt:                                  *)
(*   - the expected-value simulation kernel (robupy/python/py/auxiliary)   *)
(*   - the KW94 interpolation layer (respy/interpolate)                    *)
(*   - the admissible-values toolkit (development/analyses/robust)         *)
(*   - the scalability harness (development/testing/_modules)              *)
(*   - the continuation-value weighting pinned by the exogenous-process    *)
(*     tests (respy/tests/test_exogenous_processes)                        *)
(* Floating-point numbers are modelled as exact integers extended by the   *)
(* IEEE special values -inf, +inf and NaN, quotients as exact fractions.   *)
EXTENDS Integers, Sequences, FiniteSets, TLC

VARIABLES
    tv,     \* get_total_value, when it was the last kernel call: arguments and result
    se,     \* simulate_emax, when it was the last kernel call: arguments and result
    pw,     \* the call of _predict_with_linear_model: arguments and result
    rng,    \* the state of numpy's global random number generator
    ni_prev, \* the call of _get_not_interpolated_indicator before the last one
    ni_last, \* the last call of _get_not_interpolated_indicator
    cwd,    \* the working directory, as the path below the directory the process started in
    dirs,   \* the directories created below the starting directory
    reports, \* the file scalability.respy.info of each directory that may hold one
    ri_log, \* the calls of record_information so far, in order
    respy_obj, \* the specification object of run
    disk,   \* the specification write_out persisted, by directory
    run,    \* the call of run: its arguments, its position and its local variables
    clock,  \* the wall clock datetime.now() reads
    events, \* what run has called so far on the facade and record_information, in order
    exo,    \* the solved model of the exogenous-process tests and what was read from it
    er,     \* the call of _extract_results: arguments and outcome
    da,     \* the call of distribute_arguments: arguments and outcome
    ge,     \* the call of get_elements: arguments and outcome
    cr_prev, \* the call of criterion before the last one
    cr,     \* the last call of criterion: arguments and outcome
    sp,     \* the call of _split_interpolation_points_evenly: arguments and outcome
    seed_iter, \* the iterator options["solution_seed_iteration"]
    gs_log  \* the calls of _get_seeds_for_interpolation so far, in order

vars == <<tv, se, pw, rng, ni_prev, ni_last, cwd, dirs, reports, ri_log, respy_obj, disk, run, clock, events, exo, er, da, ge, cr_prev, cr, sp, seed_iter, gs_log>>

toolkitVars == <<er, da, ge, cr_prev, cr>>

setupVars == <<sp, seed_iter, gs_log>>

harnessVars == <<cwd, dirs, reports, ri_log, respy_obj, disk, run, clock, events>>

interpVars == <<pw, rng, ni_prev, ni_last>>

kernelVars == <<tv, se>>

---------------------------------------------------------------------------
(* IEEE-754 values: finite numbers, the two infinities and NaN.            *)

Fin(n) == [k |-> "fin", v |-> n]
NegInf == [k |-> "ninf", v |-> 0]
PosInf == [k |-> "pinf", v |-> 0]
NaN == [k |-> "nan", v |-> 0]

IsNaN(x) == x.k = "nan"

\* np.isneginf
IsNegInf(x) == x.k = "ninf"

IsFinite(x) == x.k = "fin"

\* the sign of a value that is not NaN: -1, 0 or 1
Sign(x) ==
    CASE x.k = "ninf" -> -1
      [] x.k = "pinf" -> 1
      [] OTHER -> IF x.v > 0 THEN 1 ELSE IF x.v < 0 THEN -1 ELSE 0

\* a + b
XAdd(a, b) ==
    IF IsNaN(a) \/ IsNaN(b) THEN NaN
    ELSE IF IsFinite(a) /\ IsFinite(b) THEN Fin(a.v + b.v)
    ELSE IF IsFinite(a) THEN b
    ELSE IF IsFinite(b) THEN a
    ELSE IF a.k = b.k THEN a
    ELSE NaN

\* a * b; 0 * inf is NaN
XMul(a, b) ==
    IF IsNaN(a) \/ IsNaN(b) THEN NaN
    ELSE IF IsFinite(a) /\ IsFinite(b) THEN Fin(a.v * b.v)
    ELSE IF Sign(a) * Sign(b) = 0 THEN NaN
    ELSE IF Sign(a) * Sign(b) > 0 THEN PosInf
    ELSE NegInf

\* a > b; every comparison with NaN is false
XGt(a, b) ==
    IF IsNaN(a) \/ IsNaN(b) THEN FALSE
    ELSE IF IsFinite(a) /\ IsFinite(b) THEN a.v > b.v
    ELSE IF a.k = b.k THEN FALSE
    ELSE a.k = "pinf" \/ b.k = "ninf"

RECURSIVE PyMaxFrom(_, _, _)
PyMaxFrom(xs, j, m) ==
    IF j > Len(xs) THEN m
    ELSE PyMaxFrom(xs, j + 1, IF XGt(xs[j], m) THEN xs[j] ELSE m)

\* Python's builtin max over a sequence: keeps the first item and replaces
\* it by a later one that compares greater
PyMax(xs) == PyMaxFrom(xs, 2, xs[1])

---------------------------------------------------------------------------
(* The inputs of the kernel: a small legacy state space.                   *)

\* number of decision periods of the model instances explored
NumPeriods == 3

\* largest number of Monte-Carlo draws explored
MaxDraws == 2

\* the periods of a model with num_periods periods
Periods(num_periods) == 0 .. (num_periods - 1)

\* (edu_start, edu_max) pairs explored: zero or one additional year allowed
EduBounds == {[edu_start |-> 10, edu_max |-> 10], [edu_start |-> 10, edu_max |-> 11]}

\* the additional years of schooling a model allows
Cap(eb) == eb.edu_max - eb.edu_start

Caps == {Cap(eb) : eb \in EduBounds}

\* discount factors explored; 0 is the myopic agent
Deltas == {0, 1, 2}

\* systematic payoffs explored (occupation A, occupation B, school, home)
PayoffsExAnte == {<<2, 3, 1, 0>>, <<0, 2, -3, 5>>}

\* disturbance vectors explored: positive factors for the two wages,
\* additive shocks for school and home
Disturbances == {<<2, 1, -1, 3>>, <<1, 3, 2, -2>>}

\* coefficients of the emax tables explored
EmaxShapes == {[base |-> 0, step |-> 4], [base |-> 7, step |-> -3]}

\* the states (exp_A, exp_B, edu, edu_lagged) enumerated for a period
StatesIn(period, cap) ==
    {s \in (0 .. period) \X (0 .. period) \X (0 .. period) \X {0, 1} :
        /\ s[1] + s[2] + s[3] <= period
        /\ s[3] <= cap}

StateCode(s) == ((s[1] * (NumPeriods + 1) + s[2]) * (NumPeriods + 1) + s[3]) * 2 + s[4]

\* the row of a state in its period's arrays
StateIdx(period, cap, s) ==
    Cardinality({t \in StatesIn(period, cap) : StateCode(t) < StateCode(s)})

\* states_all[period, k, :]
StatesAllOf ==
    [num_periods \in 1 .. NumPeriods, cap \in Caps |->
        [period \in Periods(num_periods) |->
            [k \in 0 .. (Cardinality(StatesIn(period, cap)) - 1) |->
                CHOOSE s \in StatesIn(period, cap) : StateIdx(period, cap, s) = k]]]

StatesAll(num_periods, cap) == StatesAllOf[num_periods, cap]

\* the value mapping_state_idx holds for a combination no state has
MISSING == -99

\* mapping_state_idx[period, exp_A, exp_B, edu, edu_lagged]
MappingStateIdxOf ==
    [num_periods \in 1 .. NumPeriods, cap \in Caps |->
        [period \in Periods(num_periods) |->
            [s \in Periods(num_periods) \X Periods(num_periods) \X (0 .. cap) \X {0, 1} |->
                IF s \in StatesIn(period, cap) THEN StateIdx(period, cap, s)
                ELSE MISSING]]]

MappingStateIdx(num_periods, cap) == MappingStateIdxOf[num_periods, cap]

\* emax[period, idx]
EmaxTableOf ==
    [num_periods \in 1 .. NumPeriods, cap \in Caps, shape \in EmaxShapes |->
        [period \in Periods(num_periods) |->
            [idx \in 0 .. (Cardinality(StatesIn(period, cap)) - 1) |->
                Fin(shape.base + shape.step * idx + period)]]]

EmaxTable(num_periods, cap, shape) == EmaxTableOf[num_periods, cap, shape]

---------------------------------------------------------------------------
(* robupy/python/py/auxiliary.py                                           *)

\* one read emax[period, mapping_state_idx[period, s]]; an index outside an
\* array raises IndexError
Lookup(mapping_state_idx, emax, period, s) ==
    IF period \notin DOMAIN mapping_state_idx \/ s \notin DOMAIN mapping_state_idx[period]
    THEN [raised |-> TRUE, value |-> NaN, read |-> {}]
    ELSE LET future_idx == mapping_state_idx[period][s] IN
         IF period \notin DOMAIN emax \/ future_idx \notin DOMAIN emax[period]
         THEN [raised |-> TRUE, value |-> NaN, read |-> {}]
         ELSE [raised |-> FALSE, value |-> emax[period][future_idx],
               read |-> {<<period, future_idx>>}]

\* a variant that keeps the lagged-education flag of the state for staying home
get_future_payoffs_lagged_kept(edu_max, edu_start, mapping_state_idx, period, emax, k, states_all) ==
    LET s == states_all[period][k]
        exp_A == s[1]
        exp_B == s[2]
        edu == s[3]
        a == Lookup(mapping_state_idx, emax, period + 1, <<exp_A + 1, exp_B, edu, 0>>)
        b == Lookup(mapping_state_idx, emax, period + 1, <<exp_A, exp_B + 1, edu, 0>>)
        c == IF edu < edu_max - edu_start
             THEN Lookup(mapping_state_idx, emax, period + 1, <<exp_A, exp_B, edu + 1, 1>>)
             ELSE [raised |-> FALSE, value |-> NegInf, read |-> {}]
        d == Lookup(mapping_state_idx, emax, period + 1, <<exp_A, exp_B, edu, s[4]>>)
    IN  [raised |-> a.raised \/ b.raised \/ c.raised \/ d.raised,
         future_payoffs |-> <<a.value, b.value, c.value, d.value>>,
         reads |-> a.read \cup b.read \cup c.read \cup d.read]

_get_future_payoffs(edu_max, edu_start, mapping_state_idx, period, emax, k, states_all) ==
    LET s == states_all[period][k]
        exp_A == s[1]
        exp_B == s[2]
        edu == s[3]
        a == Lookup(mapping_state_idx, emax, period + 1, <<exp_A + 1, exp_B, edu, 0>>)
        b == Lookup(mapping_state_idx, emax, period + 1, <<exp_A, exp_B + 1, edu, 0>>)
        c == IF edu < edu_max - edu_start
             THEN Lookup(mapping_state_idx, emax, period + 1, <<exp_A, exp_B, edu + 1, 1>>)
             ELSE [raised |-> FALSE, value |-> NegInf, read |-> {}]
        d == Lookup(mapping_state_idx, emax, period + 1, <<exp_A, exp_B, edu, 0>>)
    IN  [raised |-> a.raised \/ b.raised \/ c.raised \/ d.raised,
         future_payoffs |-> <<a.value, b.value, c.value, d.value>>,
         reads |-> a.read \cup b.read \cup c.read \cup d.read]

\* a variant that leaves the totals as computed
_stabilize_myopic_noop(total_payoffs, future_payoffs) == total_payoffs

_stabilize_myopic(total_payoffs, future_payoffs) ==
    [j \in 1 .. 4 |-> IF IsNegInf(future_payoffs[j]) THEN NegInf ELSE total_payoffs[j]]

\* a variant that takes the period after the last one for the last
is_last_period_off_by_one(period, num_periods) == period = num_periods

\* the test of line 60: no future values in the last period
is_last_period(period, num_periods) == period = num_periods - 1

get_total_value(period, num_periods, delta, payoffs_ex_ante, disturbances, edu_max, edu_start, mapping_state_idx, emax, k, states_all) ==
    LET is_myopic == (delta = 0)
        payoffs_ex_post ==
            [j \in 1 .. 4 |->
                IF j \in {1, 2} THEN XMul(Fin(payoffs_ex_ante[j]), Fin(disturbances[j]))
                ELSE XAdd(Fin(payoffs_ex_ante[j]), Fin(disturbances[j]))]
        fut == IF ~is_last_period(period, num_periods)
               THEN _get_future_payoffs(edu_max, edu_start, mapping_state_idx, period,
                                        emax, k, states_all)
               ELSE [raised |-> FALSE, future_payoffs |-> [j \in 1 .. 4 |-> Fin(0)],
                     reads |-> {}]
        future_payoffs == fut.future_payoffs
        total == [j \in 1 .. 4 |->
                    XAdd(payoffs_ex_post[j], XMul(Fin(delta), future_payoffs[j]))]
        total_payoffs == IF is_myopic THEN _stabilize_myopic(total, future_payoffs)
                         ELSE total
    IN  [raised |-> fut.raised,
         total_payoffs |-> total_payoffs,
         payoffs_ex_post |-> payoffs_ex_post,
         future_payoffs |-> future_payoffs,
         reads |-> fut.reads]

\* the loop of simulate_emax from draw i on; acc is emax_simulated, last the
\* result of get_total_value for the previous draw
RECURSIVE simulate_loop(_, _, _, _, _, _, _, _, _, _, _, _, _, _, _)
simulate_loop(i, acc, last, num_periods, num_draws, period, k, eps_relevant, payoffs_ex_ante, edu_max, edu_start, emax, states_all, mapping_state_idx, delta) ==
    IF i >= num_draws \/ last.raised THEN [acc |-> acc, last |-> last]
    ELSE LET disturbances == eps_relevant[i + 1]
             r == get_total_value(period, num_periods, delta, payoffs_ex_ante,
                                  disturbances, edu_max, edu_start, mapping_state_idx,
                                  emax, k, states_all)
             maximum == PyMax(r.total_payoffs)
         IN  simulate_loop(i + 1, IF r.raised THEN acc ELSE XAdd(acc, maximum), r,
                           num_periods, num_draws, period, k, eps_relevant,
                           payoffs_ex_ante, edu_max, edu_start, emax, states_all,
                           mapping_state_idx, delta)

\* a variant whose loop leaves out the first draw
simulate_emax_skip_first(num_periods, num_draws, period, k, eps_relevant, payoffs_ex_ante, edu_max, edu_start, emax, states_all, mapping_state_idx, delta) ==
    LET start == [raised |-> FALSE, total_payoffs |-> <<>>, payoffs_ex_post |-> Fin(0),
                  future_payoffs |-> Fin(0), reads |-> {}]
        looped == simulate_loop(1, Fin(0), start, num_periods, num_draws, period, k,
                             eps_relevant, payoffs_ex_ante, edu_max, edu_start, emax,
                             states_all, mapping_state_idx, delta)
    IN  [raised |-> looped.last.raised,
         emax_simulated |-> [num |-> looped.acc, den |-> num_draws],
         payoffs_ex_post |-> looped.last.payoffs_ex_post,
         future_payoffs |-> looped.last.future_payoffs]

\* emax_simulated is the exact fraction num / den
simulate_emax(num_periods, num_draws, period, k, eps_relevant, payoffs_ex_ante, edu_max, edu_start, emax, states_all, mapping_state_idx, delta) ==
    LET start == [raised |-> FALSE, total_payoffs |-> <<>>, payoffs_ex_post |-> Fin(0),
                  future_payoffs |-> Fin(0), reads |-> {}]
        looped == simulate_loop(0, Fin(0), start, num_periods, num_draws, period, k,
                             eps_relevant, payoffs_ex_ante, edu_max, edu_start, emax,
                             states_all, mapping_state_idx, delta)
    IN  [raised |-> looped.last.raised,
         emax_simulated |-> [num |-> looped.acc, den |-> num_draws],
         payoffs_ex_post |-> looped.last.payoffs_ex_post,
         future_payoffs |-> looped.last.future_payoffs]

---------------------------------------------------------------------------
(* The kernel's operations, applied to inputs drawn from the sets above.   *)

NoCall == [called |-> FALSE]

\* no kernel function has been called yet
KernelIdle == ~tv.called /\ ~se.called

CallGetTotalValue ==
    /\ KernelIdle
    /\ \E num_periods \in 1 .. NumPeriods, eb \in EduBounds, shape \in EmaxShapes :
        LET states_all == StatesAll(num_periods, Cap(eb))
            mapping_state_idx == MappingStateIdx(num_periods, Cap(eb))
            emax == EmaxTable(num_periods, Cap(eb), shape)
        IN  \E period \in Periods(num_periods), delta \in Deltas,
               payoffs_ex_ante \in PayoffsExAnte, disturbances \in Disturbances :
              \E k \in DOMAIN states_all[period] :
                /\ tv' = [called |-> TRUE, period |-> period,
                          num_periods |-> num_periods, delta |-> delta,
                          payoffs_ex_ante |-> payoffs_ex_ante,
                          disturbances |-> disturbances, edu_max |-> eb.edu_max,
                          edu_start |-> eb.edu_start, shape |-> shape, k |-> k,
                          state |-> states_all[period][k],
                          ret |-> get_total_value(period, num_periods, delta,
                                     payoffs_ex_ante, disturbances, eb.edu_max,
                                     eb.edu_start, mapping_state_idx, emax, k,
                                     states_all)]
                /\ se' = NoCall
                /\ UNCHANGED <<interpVars, harnessVars, exo, toolkitVars, setupVars>>

CallSimulateEmax ==
    /\ KernelIdle
    /\ \E num_periods \in 1 .. NumPeriods, eb \in EduBounds, shape \in EmaxShapes :
        LET states_all == StatesAll(num_periods, Cap(eb))
            mapping_state_idx == MappingStateIdx(num_periods, Cap(eb))
            emax == EmaxTable(num_periods, Cap(eb), shape)
        IN  \E period \in Periods(num_periods), delta \in Deltas,
               payoffs_ex_ante \in PayoffsExAnte, num_draws \in 1 .. MaxDraws,
               eps_relevant \in [1 .. MaxDraws -> Disturbances] :
              \E k \in DOMAIN states_all[period] :
                /\ se' = [called |-> TRUE, period |-> period,
                          num_periods |-> num_periods, delta |-> delta,
                          payoffs_ex_ante |-> payoffs_ex_ante,
                          num_draws |-> num_draws, eps_relevant |-> eps_relevant,
                          edu_max |-> eb.edu_max, edu_start |-> eb.edu_start,
                          shape |-> shape, k |-> k,
                          ret |-> simulate_emax(num_periods, num_draws, period, k,
                                     eps_relevant, payoffs_ex_ante, eb.edu_max,
                                     eb.edu_start, emax, states_all,
                                     mapping_state_idx, delta)]
                /\ tv' = NoCall
                /\ UNCHANGED <<interpVars, harnessVars, exo, toolkitVars, setupVars>>

InitKernel == tv = NoCall /\ se = NoCall

NextKernel == CallGetTotalValue \/ CallSimulateEmax

---------------------------------------------------------------------------
(* respy/interpolate.py                                                    *)

\* largest number of states of a period explored in the interpolation layer
MaxStates == 3

\* seeds explored
Seeds == {0, 1, 6}

\* states of the global generator when the program starts
RngStarts == {0, 11}

\* numpy's generator is a Mersenne Twister; here a small linear congruential
\* generator stands for it: np.random.seed(seed) sets the state from the seed
\* alone, and every number drawn advances the state
rng_seed(seed) == seed % 16

rng_next(state) == (5 * state + 3) % 16

\* the shuffle of np.random.permutation: for i = n - 1 down to 1 swap x[i]
\* with x[j], j drawn from 0 .. i (positions counted from 0)
RECURSIVE shuffle(_, _, _)
shuffle(x, i, state) ==
    IF i < 1 THEN [perm |-> x, state |-> state]
    ELSE LET nxt == rng_next(state)
             j == nxt % (i + 1)
             swapped == [x EXCEPT ![i + 1] = x[j + 1], ![j + 1] = x[i + 1]]
         IN  shuffle(swapped, i - 1, nxt)

\* a variant that draws every index anew (replace=True)
RECURSIVE draw_with_replacement(_, _, _, _)
draw_with_replacement(n, size, state, acc) ==
    IF Len(acc) = size THEN [raised |-> FALSE, indices |-> acc, state |-> state]
    ELSE draw_with_replacement(n, size, rng_next(state),
                               Append(acc, rng_next(state) % n))

np_random_choice_replace(n, size, state) == draw_with_replacement(n, size, state, <<>>)

\* np.random.choice(n, size=size, replace=False): the first size entries of a
\* permutation of 0 .. n - 1; ValueError for a sample larger than the population
np_random_choice(n, size, state) ==
    IF size < 0 \/ size > n THEN [raised |-> TRUE, indices |-> <<>>, state |-> state]
    ELSE LET sh == shuffle([i \in 1 .. n |-> i - 1], n - 1, state)
         IN  [raised |-> FALSE, indices |-> SubSeq(sh.perm, 1, size), state |-> sh.state]

_get_not_interpolated_indicator(interpolation_points, n_states, seed) ==
    LET seeded == rng_seed(seed)
        chosen == np_random_choice(n_states, interpolation_points, seeded)
        indices == {chosen.indices[j] : j \in 1 .. Len(chosen.indices)}
    IN  [raised |-> chosen.raised,
         not_interpolated |-> IF chosen.raised THEN <<>>
                              ELSE [s \in 1 .. n_states |-> (s - 1) \in indices],
         rng |-> chosen.state]

\* the per-state inputs explored: a row of exogenous (difference, its square
\* root, the constant) and the state's max_value_functions
StateProfiles ==
    {[exogenous |-> <<Fin(0), Fin(0), Fin(1)>>, max_value_functions |-> Fin(5)],
     [exogenous |-> <<Fin(4), Fin(2), Fin(1)>>, max_value_functions |-> Fin(-1)],
     [exogenous |-> <<Fin(9), Fin(3), Fin(1)>>, max_value_functions |-> Fin(2)]}

\* values of endogenous explored for a simulated state, one of them an
\* expected value function that overflowed
EndogenousValues == {Fin(-2), Fin(3), PosInf}

\* coefficient vectors explored, one of them not finite
Betas ==
    {<<Fin(0), Fin(0), Fin(0)>>, <<Fin(1), Fin(-1), Fin(2)>>,
     <<Fin(-2), Fin(1), Fin(-1)>>, <<NaN, Fin(0), Fin(1)>>}

\* ols(y, x): the pseudo-inverse is not computed here. Without observations
\* x.T.dot(x) and x.T.dot(y) are zero and so are the coefficients; finite
\* observations may give any finite coefficient vector; an observation y that
\* is not finite makes x.T.dot(y), and with it the coefficients, not finite
ols_results(y, x) ==
    IF Len(y) = 0 THEN {<<Fin(0), Fin(0), Fin(0)>>}
    ELSE IF \A i \in 1 .. Len(y) : IsFinite(y[i])
    THEN {beta \in Betas : \A c \in 1 .. Len(beta) : IsFinite(beta[c])}
    ELSE {beta \in Betas : \E c \in 1 .. Len(beta) : ~IsFinite(beta[c])}

RECURSIVE dot_from(_, _, _)
dot_from(row, beta, c) ==
    IF c > Len(row) THEN Fin(0)
    ELSE XAdd(XMul(row[c], beta[c]), dot_from(row, beta, c + 1))

\* one row of exogenous.dot(beta)
dot(row, beta) == dot_from(row, beta, 1)

\* np.clip(x, 0, None)
clip_at_zero(x) == IF XGt(Fin(0), x) THEN Fin(0) ELSE x

\* the position of state s among the states flagged in mask
rank_in(mask, s) == Cardinality({t \in 1 .. s : mask[t]})

\* a variant that clips after max_value_functions is added back
predict_clip_late(endogenous, exogenous, max_value_functions, not_interpolated, beta) ==
    [s \in 1 .. Len(exogenous) |->
        IF not_interpolated[s]
        THEN XAdd(endogenous[rank_in(not_interpolated, s)], max_value_functions[s])
        ELSE clip_at_zero(XAdd(dot(exogenous[s], beta), max_value_functions[s]))]

\* a variant without the assignment of line 305
predict_no_override(endogenous, exogenous, max_value_functions, not_interpolated, beta) ==
    [s \in 1 .. Len(exogenous) |->
        XAdd(clip_at_zero(dot(exogenous[s], beta)), max_value_functions[s])]

\* lines 301 to 305: the predictions for the coefficients beta
predict(endogenous, exogenous, max_value_functions, not_interpolated, beta) ==
    LET endogenous_predicted == [s \in 1 .. Len(exogenous) |->
                                    clip_at_zero(dot(exogenous[s], beta))]
        predictions == [s \in 1 .. Len(exogenous) |->
                            XAdd(endogenous_predicted[s], max_value_functions[s])]
    IN  [s \in 1 .. Len(exogenous) |->
            IF not_interpolated[s]
            THEN XAdd(endogenous[rank_in(not_interpolated, s)], max_value_functions[s])
            ELSE predictions[s]]

\* the results _predict_with_linear_model may return, one for each fit
_predict_with_linear_model(endogenous, exogenous, max_value_functions, not_interpolated) ==
    LET simulated == {s \in 1 .. Len(exogenous) : not_interpolated[s]}
        x == [s \in simulated |-> exogenous[s]]
    IN  {[beta |-> beta,
          predictions |-> predict(endogenous, exogenous, max_value_functions,
                                  not_interpolated, beta),
          warned |-> \E c \in 1 .. Len(beta) : ~IsFinite(beta[c])]
         : beta \in ols_results(endogenous, x)}

---------------------------------------------------------------------------
(* The interpolation layer's operations.                                   *)

\* no function of the interpolation layer has been called yet
InterpIdle == ~pw.called /\ ~ni_last.called

CallPredictWithLinearModel ==
    /\ InterpIdle
    /\ \E n \in 1 .. MaxStates :
        \E profiles \in [1 .. n -> StateProfiles], not_interpolated \in [1 .. n -> BOOLEAN] :
          \E endogenous \in [1 .. rank_in(not_interpolated, n) -> EndogenousValues] :
            LET exogenous == [s \in 1 .. n |-> profiles[s].exogenous]
                max_value_functions == [s \in 1 .. n |-> profiles[s].max_value_functions]
            IN  \E ret \in _predict_with_linear_model(endogenous, exogenous,
                                max_value_functions, not_interpolated) :
                  pw' = [called |-> TRUE, endogenous |-> endogenous,
                         exogenous |-> exogenous,
                         max_value_functions |-> max_value_functions,
                         not_interpolated |-> not_interpolated, ret |-> ret]
    /\ UNCHANGED <<rng, ni_prev, ni_last>>
    /\ UNCHANGED <<kernelVars, harnessVars, exo, toolkitVars, setupVars>>

CallGetNotInterpolatedIndicator ==
    /\ ~pw.called
    /\ \E seed \in Seeds, n_states \in 1 .. MaxStates,
          interpolation_points \in 0 .. (MaxStates + 1) :
        LET ret == _get_not_interpolated_indicator(interpolation_points, n_states, seed)
        IN  /\ ni_last' = [called |-> TRUE,
                           interpolation_points |-> interpolation_points,
                           n_states |-> n_states, seed |-> seed,
                           raised |-> ret.raised,
                           not_interpolated |-> ret.not_interpolated]
            /\ rng' = ret.rng
    /\ ni_prev' = ni_last
    /\ UNCHANGED pw
    /\ UNCHANGED <<kernelVars, harnessVars, exo, toolkitVars, setupVars>>

InitInterp ==
    /\ pw = NoCall
    /\ ni_prev = NoCall
    /\ ni_last = NoCall
    /\ rng \in RngStarts

\* the interpolation layer unused, the generator in one of its start states
QuietInterp == InitInterp /\ rng = 0

NextInterp == CallPredictWithLinearModel \/ CallGetNotInterpolatedIndicator

---------------------------------------------------------------------------
(* respy/interpolate.py: the seeds and the interpolation points of a call  *)
(* of _kw_94_interpolation.                                                *)

\* largest number of dense sub-state-spaces explored
MaxDense == 3

\* largest value of options["interpolation_points"] explored
MaxPoints == 5

\* largest number of calls of _get_seeds_for_interpolation explored
MaxSeedCalls == 3

\* the keys of state_space.sub_state_spaces, in iteration order
DenseKeys(d) == [i \in 1 .. d |-> <<i - 1>>]

\* state spaces explored: without the attribute sub_state_spaces, or with
\* zero to MaxDense sub-state-spaces
StateSpaces ==
    {[has_sub_state_spaces |-> FALSE, sub_state_spaces |-> <<>>]}
        \cup {[has_sub_state_spaces |-> TRUE, sub_state_spaces |-> DenseKeys(d)]
                : d \in 0 .. MaxDense}

\* a // b and a % b of Python for b > 0: the quotient rounded down and the
\* remainder in 0 .. b - 1
floor_div(a, b) == a \div b

py_mod(a, b) == a % b

\* a variant that gives the remaining points to the last sub-state-spaces
split_remainder_last(state_space, interpolation_points) ==
    IF state_space.has_sub_state_spaces
    THEN LET n_dense_combinations == Len(state_space.sub_state_spaces)
         IN  IF n_dense_combinations = 0
             THEN [raised |-> "ZeroDivisionError", interp_points |-> <<>>]
             ELSE LET remaining_points == py_mod(interpolation_points, n_dense_combinations)
                  IN  [raised |-> "none",
                       interp_points |->
                          [i \in 1 .. n_dense_combinations |->
                              [dense_idx |-> state_space.sub_state_spaces[i],
                               points |-> floor_div(interpolation_points, n_dense_combinations)
                                   + (IF i > n_dense_combinations - remaining_points
                                      THEN 1 ELSE 0)]]]
    ELSE [raised |-> "none", interp_points |-> interpolation_points]

\* the dictionary is the sequence of its (dense_idx, points) items in
\* iteration order; without sub-state-spaces the result is the number itself
_split_interpolation_points_evenly(state_space, interpolation_points) ==
    IF state_space.has_sub_state_spaces
    THEN LET n_dense_combinations == Len(state_space.sub_state_spaces)
         IN  IF n_dense_combinations = 0
             THEN [raised |-> "ZeroDivisionError", interp_points |-> <<>>]
             ELSE LET remaining_points == py_mod(interpolation_points, n_dense_combinations)
                  IN  [raised |-> "none",
                       interp_points |->
                          [i \in 1 .. n_dense_combinations |->
                              [dense_idx |-> state_space.sub_state_spaces[i],
                               points |-> floor_div(interpolation_points, n_dense_combinations)
                                   + (IF i <= remaining_points THEN 1 ELSE 0)]]]
    ELSE [raised |-> "none", interp_points |-> interpolation_points]

\* iterators explored: the elements start, start + 1, ... of which taken
\* have been handed out
IteratorStarts == {[start |-> 0, taken |-> 0], [start |-> 40, taken |-> 0]}

\* next(iterator): the element handed out, by position and value, and the
\* iterator afterwards
next_of(iterator) ==
    [element |-> [position |-> iterator.taken, value |-> iterator.start + iterator.taken],
     iterator |-> [iterator EXCEPT !.taken = iterator.taken + 1]]

\* the dictionary comprehension of lines 122 to 125, from key i on
RECURSIVE seeds_from(_, _, _, _)
seeds_from(sub_state_spaces, i, iterator, acc) ==
    IF i > Len(sub_state_spaces) THEN [seed |-> acc, iterator |-> iterator]
    ELSE LET n == next_of(iterator)
         IN  seeds_from(sub_state_spaces, i + 1, n.iterator,
                        Append(acc, [dense_idx |-> sub_state_spaces[i], seed |-> n.element]))

\* a variant that draws one element and gives it to every sub-state-space
get_seeds_shared(state_space, iterator) ==
    LET n == next_of(iterator)
    IN  IF state_space.has_sub_state_spaces
        THEN [seed |-> [i \in 1 .. Len(state_space.sub_state_spaces) |->
                          [dense_idx |-> state_space.sub_state_spaces[i], seed |-> n.element]],
              iterator |-> n.iterator]
        ELSE [seed |-> <<[dense_idx |-> <<>>, seed |-> n.element]>>, iterator |-> n.iterator]

\* the result is the sequence of (dense_idx, seed) items in iteration order,
\* or the one seed (under the empty dense index) without sub-state-spaces
_get_seeds_for_interpolation(state_space, iterator) ==
    IF state_space.has_sub_state_spaces
    THEN seeds_from(state_space.sub_state_spaces, 1, iterator, <<>>)
    ELSE LET n == next_of(iterator)
         IN  [seed |-> <<[dense_idx |-> <<>>, seed |-> n.element]>>, iterator |-> n.iterator]

\* neither function has been called yet
SetupIdle == ~sp.called /\ Len(gs_log) = 0

CallSplitInterpolationPointsEvenly ==
    /\ SetupIdle
    /\ \E state_space \in StateSpaces, interpolation_points \in -1 .. MaxPoints :
        sp' = [called |-> TRUE, state_space |-> state_space,
               interpolation_points |-> interpolation_points,
               ret |-> _split_interpolation_points_evenly(state_space, interpolation_points)]
    /\ UNCHANGED <<seed_iter, gs_log>>
    /\ UNCHANGED <<kernelVars, interpVars, harnessVars, exo, toolkitVars>>

CallGetSeedsForInterpolation ==
    /\ ~sp.called
    /\ Len(gs_log) < MaxSeedCalls
    /\ \E state_space \in StateSpaces :
        LET ret == _get_seeds_for_interpolation(state_space, seed_iter)
        IN  /\ seed_iter' = ret.iterator
            /\ gs_log' = Append(gs_log, [state_space |-> state_space, before |-> seed_iter,
                                         seed |-> ret.seed, after |-> ret.iterator])
    /\ UNCHANGED sp
    /\ UNCHANGED <<kernelVars, interpVars, harnessVars, exo, toolkitVars>>

InitSetup == sp = NoCall /\ seed_iter \in IteratorStarts /\ gs_log = <<>>

\* the two functions unused, the iterator at its first start
QuietSetup == InitSetup /\ seed_iter.start = 0

NextSetup == CallSplitInterpolationPointsEvenly \/ CallGetSeedsForInterpolation

---------------------------------------------------------------------------
(* development/testing/_modules/auxiliary_scalability.py                   *)

\* largest number of direct calls of record_information explored
MaxCalls == 3

\* largest length of grid_slaves explored
MaxGrid == 2

\* worker counts explored
SlaveCounts == {1, 2}

\* seconds an estimation may take
Durations == {1, 2}

\* (start_time, finish_time) pairs explored for direct calls, in seconds
TimePairs == {<<0, 0>>, <<0, 2>>, <<1, 2>>}

\* the output directory run creates: fname without '.ini'
OutDir == <<"dirname">>

\* the directories of the model: where the process starts, the output
\* directory and its numbered subdirectories
AllDirs == {<<>>, OutDir} \cup {Append(OutDir, n) : n \in SlaveCounts}

\* the directories in which record_information is called
ReportDirs == {<<>>, OutDir}

AbsentFile == [exists |-> FALSE, lines |-> <<>>]

\* the three writes of lines 78 to 81
HeaderBlock == <<[kind |-> "time"], [kind |-> "columns"], [kind |-> "blank"]>>

\* the row of lines 83 to 91; the duration is kept in seconds
Row(start_time, finish_time, num_slaves) ==
    [kind |-> "row", slaves |-> num_slaves, start |-> start_time,
     stop |-> finish_time, duration |-> finish_time - start_time]

\* open(..., 'a') followed by writes: the file is created when absent
append_lines(file, lines) == [exists |-> TRUE, lines |-> file.lines \o lines]

\* a variant that writes the header on every call
record_information_header_always(file, start_time, finish_time, num_slaves) ==
    append_lines(append_lines(file, HeaderBlock),
                 <<Row(start_time, finish_time, num_slaves)>>)

\* the report file after record_information, from the file before it
record_information(file, start_time, finish_time, num_slaves) ==
    LET with_header == IF ~file.exists THEN append_lines(file, HeaderBlock) ELSE file
    IN  append_lines(with_header, <<Row(start_time, finish_time, num_slaves)>>)

\* the report files a directory may hold when the program starts: none, or
\* one that earlier calls of record_information left
ReportStarts ==
    {AbsentFile,
     [exists |-> TRUE, lines |-> HeaderBlock \o <<Row(0, 1, 1)>>],
     [exists |-> TRUE, lines |-> HeaderBlock \o <<Row(0, 1, 1), Row(1, 3, 2)>>]}

\* the specification object as RespyCls reads it from the file: locked
LoadedSpec ==
    [is_locked |-> TRUE,
     attr |-> [file_est |-> "ini", optimizer_options |-> "ini",
               optimizer_used |-> "ini", num_draws_emax |-> "ini",
               num_draws_prob |-> "ini", num_agents_est |-> "ini",
               num_agents_sim |-> "ini", scaling |-> "ini", maxfun |-> "ini",
               num_periods |-> "ini", num_procs |-> 1, is_parallel |-> FALSE]]

NoSpec == [is_locked |-> TRUE, attr |-> [none |-> TRUE]]

unlock(obj) == [obj EXCEPT !.is_locked = FALSE]

lock(obj) == [obj EXCEPT !.is_locked = TRUE]

\* set_attr writes one attribute; it is refused while the object is locked
set_attr(obj, key, value) ==
    IF obj.is_locked THEN [raised |-> TRUE, obj |-> obj]
    ELSE [raised |-> FALSE, obj |-> [obj EXCEPT !.attr[key] = value]]

\* a variant that takes one worker for parallel as well
is_parallel_from_one(num_slaves) == num_slaves >= 1

\* lines 56 to 59: the value of is_parallel
is_parallel_for(num_slaves) == num_slaves > 1

\* lines 27 to 37
Overrides ==
    <<[op |-> "unlock"],
      [op |-> "set_attr", key |-> "file_est", value |-> "../data.respy.dat"],
      [op |-> "set_attr", key |-> "optimizer_options", value |-> "spec_dict"],
      [op |-> "set_attr", key |-> "optimizer_used", value |-> "spec_dict"],
      [op |-> "set_attr", key |-> "num_draws_emax", value |-> "spec_dict"],
      [op |-> "set_attr", key |-> "num_draws_prob", value |-> "spec_dict"],
      [op |-> "set_attr", key |-> "num_agents_est", value |-> "spec_dict"],
      [op |-> "set_attr", key |-> "num_agents_sim", value |-> "spec_dict"],
      [op |-> "set_attr", key |-> "scaling", value |-> "spec_dict"],
      [op |-> "set_attr", key |-> "maxfun", value |-> "spec_dict"],
      [op |-> "lock"]>>

\* a variant that writes num_periods without unlocking first
PeriodOverrideLocked(has_num_periods) ==
    IF has_num_periods
    THEN <<[op |-> "set_attr", key |-> "num_periods", value |-> "spec_dict"],
           [op |-> "lock"]>>
    ELSE <<>>

\* lines 39 to 42
PeriodOverride(has_num_periods) ==
    IF has_num_periods
    THEN <<[op |-> "unlock"],
           [op |-> "set_attr", key |-> "num_periods", value |-> "spec_dict"],
           [op |-> "lock"]>>
    ELSE <<>>

\* a variant that estimates without recording the timing
LoopBodyUnrecorded(num_slaves) ==
    <<[op |-> "mkdir_chdir", num_slaves |-> num_slaves],
      [op |-> "unlock"],
      [op |-> "set_attr", key |-> "num_procs", value |-> num_slaves + 1],
      [op |-> "set_attr", key |-> "is_parallel", value |-> is_parallel_for(num_slaves)],
      [op |-> "lock"],
      [op |-> "write_out"],
      [op |-> "now", into |-> "start_time"],
      [op |-> "estimate"],
      [op |-> "now", into |-> "finish_time"],
      [op |-> "chdir_up"]>>

\* lines 51 to 69: one pass of the loop
LoopBody(num_slaves) ==
    <<[op |-> "mkdir_chdir", num_slaves |-> num_slaves],
      [op |-> "unlock"],
      [op |-> "set_attr", key |-> "num_procs", value |-> num_slaves + 1],
      [op |-> "set_attr", key |-> "is_parallel", value |-> is_parallel_for(num_slaves)],
      [op |-> "lock"],
      [op |-> "write_out"],
      [op |-> "now", into |-> "start_time"],
      [op |-> "estimate"],
      [op |-> "now", into |-> "finish_time"],
      [op |-> "chdir_up"],
      [op |-> "record_information"]>>

RECURSIVE Loop(_, _)
Loop(grid_slaves, i) ==
    IF i > Len(grid_slaves) THEN <<>>
    ELSE LoopBody(grid_slaves[i]) \o Loop(grid_slaves, i + 1)

\* the statements of run after lines 13 and 14, in the order they execute
Statements(has_num_periods, grid_slaves) ==
    <<[op |-> "construct"]>> \o Overrides \o PeriodOverride(has_num_periods)
        \o <<[op |-> "simulate"], [op |-> "write_out"]>>
        \o Loop(grid_slaves, 1) \o <<[op |-> "chdir_up"]>>

NotRunning == [pc |-> 0, status |-> "idle"]

\* the statement run executes next
Current == Statements(run.has_num_periods, run.grid_slaves)[run.pc]

Running == run.status = "running" /\ run.pc <= Len(Statements(run.has_num_periods, run.grid_slaves))

\* run moves on to the next statement, or returns after the last one
Advance(r) ==
    IF r.pc = Len(Statements(r.has_num_periods, r.grid_slaves))
    THEN [r EXCEPT !.pc = r.pc + 1, !.status = "returned"]
    ELSE [r EXCEPT !.pc = r.pc + 1]

\* lines 13 and 14: run starts; os.mkdir raises when the directory exists
RunStart ==
    /\ run.status = "idle"
    /\ Len(ri_log) = 0
    /\ \E has_num_periods \in BOOLEAN, n \in 0 .. MaxGrid :
        \E grid_slaves \in [1 .. n -> SlaveCounts] :
          IF OutDir \in dirs
          THEN /\ run' = [pc |-> 0, status |-> "raised", has_num_periods |-> has_num_periods,
                          grid_slaves |-> grid_slaves, num_slaves |-> 0,
                          start_time |-> 0, finish_time |-> 0]
               /\ UNCHANGED <<cwd, dirs>>
          ELSE /\ run' = [pc |-> 1, status |-> "running", has_num_periods |-> has_num_periods,
                          grid_slaves |-> grid_slaves, num_slaves |-> 0,
                          start_time |-> 0, finish_time |-> 0]
               /\ dirs' = dirs \cup {OutDir}
               /\ cwd' = OutDir
    /\ UNCHANGED <<reports, ri_log, respy_obj, disk, clock, events>>
    /\ UNCHANGED <<kernelVars, interpVars, exo, toolkitVars, setupVars>>

\* line 25
RunConstruct ==
    /\ Running /\ Current.op = "construct"
    /\ respy_obj' = LoadedSpec
    /\ run' = Advance(run)
    /\ UNCHANGED <<cwd, dirs, reports, ri_log, disk, clock, events>>
    /\ UNCHANGED <<kernelVars, interpVars, exo, toolkitVars, setupVars>>

RunUnlock ==
    /\ Running /\ Current.op = "unlock"
    /\ respy_obj' = unlock(respy_obj)
    /\ events' = Append(events, [call |-> "unlock"])
    /\ run' = Advance(run)
    /\ UNCHANGED <<cwd, dirs, reports, ri_log, disk, clock>>
    /\ UNCHANGED <<kernelVars, interpVars, exo, toolkitVars, setupVars>>

RunSetAttr ==
    /\ Running /\ Current.op = "set_attr"
    /\ LET r == set_attr(respy_obj, Current.key, Current.value)
       IN  /\ respy_obj' = r.obj
           /\ run' = IF r.raised THEN [run EXCEPT !.status = "raised"] ELSE Advance(run)
           /\ events' = Append(events, [call |-> "set_attr", key |-> Current.key,
                                        refused |-> r.raised])
    /\ UNCHANGED <<cwd, dirs, reports, ri_log, disk, clock>>
    /\ UNCHANGED <<kernelVars, interpVars, exo, toolkitVars, setupVars>>

RunLock ==
    /\ Running /\ Current.op = "lock"
    /\ respy_obj' = lock(respy_obj)
    /\ events' = Append(events, [call |-> "lock"])
    /\ run' = Advance(run)
    /\ UNCHANGED <<cwd, dirs, reports, ri_log, disk, clock>>
    /\ UNCHANGED <<kernelVars, interpVars, exo, toolkitVars, setupVars>>

\* line 46
RunSimulate ==
    /\ Running /\ Current.op = "simulate"
    /\ events' = Append(events, [call |-> "simulate", attr |-> respy_obj.attr,
                                 is_locked |-> respy_obj.is_locked])
    /\ run' = Advance(run)
    /\ UNCHANGED <<cwd, dirs, reports, ri_log, respy_obj, disk, clock>>
    /\ UNCHANGED <<kernelVars, interpVars, exo, toolkitVars, setupVars>>

\* lines 47 and 61: the specification is persisted in the working directory
RunWriteOut ==
    /\ Running /\ Current.op = "write_out"
    /\ disk' = [disk EXCEPT ![cwd] = respy_obj.attr]
    /\ events' = Append(events, [call |-> "write_out", dir |-> cwd,
                                 is_locked |-> respy_obj.is_locked])
    /\ run' = Advance(run)
    /\ UNCHANGED <<cwd, dirs, reports, ri_log, respy_obj, clock>>
    /\ UNCHANGED <<kernelVars, interpVars, exo, toolkitVars, setupVars>>

\* lines 51 and 52; os.mkdir raises when the directory exists
RunMkdirChdir ==
    /\ Running /\ Current.op = "mkdir_chdir"
    /\ LET dirname == Append(cwd, Current.num_slaves)
       IN  IF dirname \in dirs
           THEN /\ run' = [run EXCEPT !.status = "raised", !.num_slaves = Current.num_slaves]
                /\ UNCHANGED <<cwd, dirs>>
           ELSE /\ run' = [Advance(run) EXCEPT !.num_slaves = Current.num_slaves]
                /\ dirs' = dirs \cup {dirname}
                /\ cwd' = dirname
    /\ UNCHANGED <<reports, ri_log, respy_obj, disk, clock, events>>
    /\ UNCHANGED <<kernelVars, interpVars, exo, toolkitVars, setupVars>>

\* lines 63 and 65
RunNow ==
    /\ Running /\ Current.op = "now"
    /\ run' = IF Current.into = "start_time"
              THEN [Advance(run) EXCEPT !.start_time = clock]
              ELSE [Advance(run) EXCEPT !.finish_time = clock]
    /\ UNCHANGED <<cwd, dirs, reports, ri_log, respy_obj, disk, clock, events>>
    /\ UNCHANGED <<kernelVars, interpVars, exo, toolkitVars, setupVars>>

\* line 64: the estimation runs for some time
RunEstimate ==
    /\ Running /\ Current.op = "estimate"
    /\ \E d \in Durations : clock' = clock + d
    /\ events' = Append(events, [call |-> "estimate", num_slaves |-> run.num_slaves,
                                 attr |-> respy_obj.attr, dir |-> cwd,
                                 is_locked |-> respy_obj.is_locked])
    /\ run' = Advance(run)
    /\ UNCHANGED <<cwd, dirs, reports, ri_log, respy_obj, disk>>
    /\ UNCHANGED <<kernelVars, interpVars, exo, toolkitVars, setupVars>>

\* lines 67 and 71
RunChdirUp ==
    /\ Running /\ Current.op = "chdir_up"
    /\ cwd' = SubSeq(cwd, 1, Len(cwd) - 1)
    /\ run' = Advance(run)
    /\ UNCHANGED <<dirs, reports, ri_log, respy_obj, disk, clock, events>>
    /\ UNCHANGED <<kernelVars, interpVars, exo, toolkitVars, setupVars>>

\* what a call of record_information in the working directory does
DoRecordInformation(start_time, finish_time, num_slaves) ==
    /\ cwd \in ReportDirs
    /\ reports' = [reports EXCEPT ![cwd] =
                      record_information(reports[cwd], start_time, finish_time, num_slaves)]
    /\ ri_log' = Append(ri_log, [dir |-> cwd, found_absent |-> ~reports[cwd].exists,
                                 start_time |-> start_time, finish_time |-> finish_time,
                                 num_slaves |-> num_slaves,
                                 before |-> reports[cwd]])

\* line 69
RunRecordInformation ==
    /\ Running /\ Current.op = "record_information"
    /\ DoRecordInformation(run.start_time, run.finish_time, run.num_slaves)
    /\ events' = Append(events, [call |-> "record_information",
                                 num_slaves |-> run.num_slaves, dir |-> cwd])
    /\ run' = Advance(run)
    /\ UNCHANGED <<cwd, dirs, respy_obj, disk, clock>>
    /\ UNCHANGED <<kernelVars, interpVars, exo, toolkitVars, setupVars>>

\* record_information called on its own, in the starting directory
CallRecordInformation ==
    /\ run.status = "idle"
    /\ Len(ri_log) < MaxCalls
    /\ \E times \in TimePairs, num_slaves \in SlaveCounts :
        DoRecordInformation(times[1], times[2], num_slaves)
    /\ UNCHANGED <<cwd, dirs, respy_obj, disk, run, clock, events>>
    /\ UNCHANGED <<kernelVars, interpVars, exo, toolkitVars, setupVars>>

InitHarness ==
    /\ cwd = <<>>
    /\ dirs = {}
    /\ reports \in [ReportDirs -> ReportStarts]
    /\ reports[OutDir] = AbsentFile
    /\ ri_log = <<>>
    /\ respy_obj = NoSpec
    /\ disk = [d \in AllDirs |-> NoSpec.attr]
    /\ run = NotRunning
    /\ clock = 0
    /\ events = <<>>

\* no report file anywhere
QuietHarness == InitHarness /\ reports[<<>>] = AbsentFile

NextReport == CallRecordInformation

NextRun ==
    \/ RunStart
    \/ RunConstruct
    \/ RunUnlock
    \/ RunSetAttr
    \/ RunLock
    \/ RunSimulate
    \/ RunWriteOut
    \/ RunMkdirChdir
    \/ RunNow
    \/ RunEstimate
    \/ RunChdirUp
    \/ RunRecordInformation

---------------------------------------------------------------------------
(* respy/tests/test_exogenous_processes.py and the continuation values of  *)
(* the solved state space it reads.                                        *)

\* number of periods of the example model
ExogPeriods == 3

\* states per period and dense sub-state-space
ExogStates == {1, 2}

ExogChoices == {"fishing", "hammock"}

\* a variant with the two probabilities exchanged
IllnessProbsSwapped == <<1, 9>>

\* lines 14 and 15: the probabilities of healthy and sick, in tenths
IllnessProbs == <<9, 1>>

\* lines 26 and 27: the probabilities of normal and stormy, in tenths
WeatherProbs == <<8, 2>>

\* the processes of model_with_one_exog_proc and model_with_two_exog_proc
Processes(n_procs) == IF n_procs = 1 THEN <<IllnessProbs>> ELSE <<IllnessProbs, WeatherProbs>>

\* the dense indices: one realization of every process
DenseIndices(n_procs) == [1 .. n_procs -> {0, 1}]

RECURSIVE WeightFrom(_, _, _)
WeightFrom(dense_idx, n_procs, p) ==
    IF p > n_procs THEN 1
    ELSE Processes(n_procs)[p][dense_idx[p] + 1] * WeightFrom(dense_idx, n_procs, p + 1)

\* the probability of a dense index, in units of 10^-n_procs
Weight(dense_idx, n_procs) == WeightFrom(dense_idx, n_procs, 1)

RECURSIVE TenTo(_)
TenTo(n) == IF n = 0 THEN 1 ELSE 10 * TenTo(n - 1)

\* the state a choice leads to in the next period
ChildState(s, choice) == IF choice = "fishing" THEN 3 - s ELSE s

RECURSIVE WeightedSum(_, _, _, _, _)
WeightedSum(todo, evf, n_procs, period, child) ==
    IF todo = {} THEN 0
    ELSE LET d == CHOOSE x \in todo : TRUE
         IN  Weight(d, n_procs) * evf[d][period][child]
                + WeightedSum(todo \ {d}, evf, n_procs, period, child)

\* state_space.get_continuation_values(period): for every dense index, state
\* and choice the expected value function of the child state in the next
\* period, averaged over the dense indices with their probabilities; an
\* exact fraction
get_continuation_values(evf, n_procs, period) ==
    [dense_idx \in DenseIndices(n_procs) |->
        [s \in ExogStates |->
            [choice \in ExogChoices |->
                IF period = ExogPeriods - 1 THEN [num |-> 0, den |-> 1]
                ELSE [num |-> WeightedSum(DenseIndices(n_procs), evf, n_procs,
                                          period + 1, ChildState(s, choice)),
                      den |-> TenTo(n_procs)]]]]

\* the expected value functions a solve may leave for one dense index
SolvedArrays ==
    {[period \in 0 .. (ExogPeriods - 1) |-> [s \in ExogStates |-> v + 2 * period + s]]
        : v \in {0, 5, -3}}

\* lines 66, 67 and 82 to 85: the constant the test writes for a dense index
ForcedConstant(dense_idx, n_procs) ==
    IF n_procs = 1 THEN dense_idx[1] + 1 ELSE 2 * dense_idx[1] + dense_idx[2] + 1

NotSolved == [stage |-> "idle"]

\* lines 63, 64 and 79, 80
ExogSolve ==
    /\ exo.stage = "idle"
    /\ \E n_procs \in {1, 2} :
        \E evf \in [DenseIndices(n_procs) -> SolvedArrays] :
          exo' = [stage |-> "solved", n_procs |-> n_procs, evf |-> evf, forced |-> FALSE]
    /\ UNCHANGED <<kernelVars, interpVars, harnessVars, toolkitVars, setupVars>>

\* lines 66, 67 and 82 to 85
ExogForce ==
    /\ exo.stage = "solved"
    /\ ~exo.forced
    /\ exo' = [exo EXCEPT
                !.evf = [d \in DenseIndices(exo.n_procs) |->
                            [period \in 0 .. (ExogPeriods - 1) |->
                                [s \in ExogStates |-> ForcedConstant(d, exo.n_procs)]]],
                !.forced = TRUE]
    /\ UNCHANGED <<kernelVars, interpVars, harnessVars, toolkitVars, setupVars>>

\* lines 70, 71 and 89, 90
ExogGetContinuationValues ==
    /\ exo.stage = "solved"
    /\ \E period \in 0 .. (ExogPeriods - 1) :
        exo' = [stage |-> "read", n_procs |-> exo.n_procs, evf |-> exo.evf,
                forced |-> exo.forced, period |-> period,
                continuation_values |->
                    get_continuation_values(exo.evf, exo.n_procs, period)]
    /\ UNCHANGED <<kernelVars, interpVars, harnessVars, toolkitVars, setupVars>>

InitExog == exo = NotSolved

NextExog == ExogSolve \/ ExogForce \/ ExogGetContinuationValues

---------------------------------------------------------------------------
(* development/analyses/robust/admissible_values/modules/auxiliary.py      *)

\* the levels 0.0, 0.01 and 0.02, in hundredths
AMBIGUITY_GRID == <<0, 1, 2>>

CHOICE_LIST == <<"Occupation A", "Occupation B", "School", "Home">>

BOUNDS_LIST == <<"lower", "upper">>

\* x in list
In(x, list) == \E i \in 1 .. Len(list) : list[i] = x

\* list.index(x), counted from 0; ValueError when x is not in the list
IndexOf(x, list) ==
    IF In(x, list) THEN [raised |-> FALSE, idx |-> (CHOOSE i \in 1 .. Len(list) : list[i] = x) - 1]
    ELSE [raised |-> TRUE, idx |-> 0]

\* levels explored, two of them outside the grid
LevelInputs == {0, 1, 2, 3, -1}

ChoiceInputs == {"Occupation A", "Occupation B", "School", "Home", "Leisure"}

WhichInputs == {"lower", "upper", "middle"}

\* result dictionaries explored: level -> choice -> (lower, upper)
ResultTables ==
    {[level \in {0, 1, 2} |->
        [c \in 1 .. 4 |-> <<base + 100 * c - 10 * level, base + 100 * c + 10 * level>>]]
        : base \in {1000, 2000}}

\* a variant without the assertion on which
extract_results_unchecked_which(level, choice, rslts, which) ==
    IF ~In(level, AMBIGUITY_GRID) \/ ~In(choice, CHOICE_LIST)
    THEN [raised |-> "AssertionError", value |-> 0, reads |-> {}]
    ELSE LET idx_choice == IndexOf(choice, CHOICE_LIST)
             idx_bounds == IndexOf(which, BOUNDS_LIST)
         IN  IF idx_bounds.raised THEN [raised |-> "ValueError", value |-> 0, reads |-> {}]
             ELSE [raised |-> "none",
                   value |-> rslts[level][idx_choice.idx + 1][idx_bounds.idx + 1],
                   reads |-> {<<level, idx_choice.idx, idx_bounds.idx>>}]

_extract_results(level, choice, rslts, which) ==
    IF ~In(level, AMBIGUITY_GRID) \/ ~In(choice, CHOICE_LIST) \/ ~In(which, BOUNDS_LIST)
    THEN [raised |-> "AssertionError", value |-> 0, reads |-> {}]
    ELSE LET idx_choice == IndexOf(choice, CHOICE_LIST).idx
             idx_bounds == IndexOf(which, BOUNDS_LIST).idx
         IN  IF level \notin DOMAIN rslts
             THEN [raised |-> "KeyError", value |-> 0, reads |-> {}]
             ELSE [raised |-> "none",
                   value |-> rslts[level][idx_choice + 1][idx_bounds + 1],
                   reads |-> {<<level, idx_choice, idx_bounds>>}]

\* np.array(rslt) / 1000.00, element by element: exact fractions
divide_by_1000(rslt) == [i \in 1 .. Len(rslt) |-> [num |-> rslt[i], den |-> 1000]]

\* upper - lower of two arrays over the same denominator
subtract(upper, lower) ==
    [i \in 1 .. Len(upper) |-> [num |-> upper[i].num - lower[i].num, den |-> 1000]]

\* lines 75 to 77: the results of _extract_results over AMBIGUITY_GRID
extract_over_grid(choice, rslts, which) ==
    [i \in 1 .. Len(AMBIGUITY_GRID) |-> _extract_results(AMBIGUITY_GRID[i], choice, rslts, which)]

\* a variant that takes the first bound of BOUNDS_LIST for upper
get_elements_upper_first(choice, rslts) ==
    LET first == extract_over_grid(choice, rslts, BOUNDS_LIST[1])
        second == extract_over_grid(choice, rslts, BOUNDS_LIST[2])
    IN  IF \E i \in 1 .. Len(AMBIGUITY_GRID) : first[i].raised # "none" \/ second[i].raised # "none"
        THEN [raised |-> "AssertionError", upper |-> <<>>, lower |-> <<>>, increments |-> <<>>]
        ELSE LET upper == divide_by_1000([i \in 1 .. Len(AMBIGUITY_GRID) |-> first[i].value])
                 lower == divide_by_1000([i \in 1 .. Len(AMBIGUITY_GRID) |-> second[i].value])
             IN  [raised |-> "none", upper |-> upper, lower |-> lower,
                  increments |-> subtract(upper, lower)]

\* the first pass of the loop over BOUNDS_LIST ('lower') fills lower, the
\* second ('upper') fills upper; a failure of _extract_results ends the call
get_elements(choice, rslts) ==
    LET first == extract_over_grid(choice, rslts, BOUNDS_LIST[1])
        second == extract_over_grid(choice, rslts, BOUNDS_LIST[2])
    IN  IF \E i \in 1 .. Len(AMBIGUITY_GRID) : first[i].raised # "none"
        THEN [raised |-> first[CHOOSE i \in 1 .. Len(AMBIGUITY_GRID) : first[i].raised # "none"].raised,
              upper |-> <<>>, lower |-> <<>>, increments |-> <<>>]
        ELSE IF \E i \in 1 .. Len(AMBIGUITY_GRID) : second[i].raised # "none"
        THEN [raised |-> second[CHOOSE i \in 1 .. Len(AMBIGUITY_GRID) : second[i].raised # "none"].raised,
              upper |-> <<>>, lower |-> <<>>, increments |-> <<>>]
        ELSE LET lower == divide_by_1000([i \in 1 .. Len(AMBIGUITY_GRID) |-> first[i].value])
                 upper == divide_by_1000([i \in 1 .. Len(AMBIGUITY_GRID) |-> second[i].value])
             IN  [raised |-> "none", upper |-> upper, lower |-> lower,
                  increments |-> subtract(upper, lower)]

\* result dictionaries explored for get_elements: those above, one whose
\* bounds follow no pattern and one without the level 0.02
ElementTables ==
    ResultTables
        \cup {[level \in {0, 1, 2} |->
                [c \in 1 .. 4 |-> <<7 * c * c - 13 * level * c, 90000 - 11 * c + level * level>>]]}
        \cup {[level \in {0, 1} |-> [c \in 1 .. 4 |-> <<c, c + level>>]]}

\* Python values: a type and a number (1 and 0 for True and False)
PyBool(b) == [t |-> "bool", v |-> IF b THEN 1 ELSE 0]

PyInt(n) == [t |-> "int", v |-> n]

PyFloat(n) == [t |-> "float", v |-> n]

PyNone == [t |-> "NoneType", v |-> 0]

\* x == y for a value x and a bool y: numbers compare by value
PyEqBool(x, b) == x.t \in {"bool", "int", "float"} /\ x.v = PyBool(b).v

\* x in [True, False]
InTrueFalse(x) == PyEqBool(x, TRUE) \/ PyEqBool(x, FALSE)

\* isinstance(x, int); bool is a subclass of int
IsInstanceInt(x) == x.t \in {"int", "bool"}

\* np.all(levels): whether every element is nonzero, as a boolean
np_all(xs) == \A i \in 1 .. Len(xs) : xs[i] # 0

\* the number a boolean compares as
AsNumber(b) == IF b THEN 1 ELSE 0

\* values explored for the two flags
FlagInputs == {PyBool(TRUE), PyBool(FALSE), PyInt(1), PyInt(2), PyNone}

\* values explored for num_procs
ProcInputs == {PyInt(2), PyInt(0), PyInt(-1), PyFloat(2), PyBool(TRUE)}

\* values explored for levels, in hundredths
LevelsInputs ==
    {[t |-> "list", v |-> <<0, 1>>], [t |-> "list", v |-> <<>>],
     [t |-> "list", v |-> <<-1>>], [t |-> "list", v |-> <<0, -2>>],
     [t |-> "tuple", v |-> <<0, 1>>]}

SpecInputs == {"one", "two", "three", "four"}

\* the assertions of lines 167 to 173, in order
distribute_arguments(args) ==
    LET ok == /\ args.levels.t = "list"
              /\ AsNumber(np_all(args.levels.v)) >= 0
              /\ InTrueFalse(args.is_recompile)
              /\ InTrueFalse(args.is_debug)
              /\ IsInstanceInt(args.num_procs)
              /\ args.num_procs.v > 0
              /\ In(args.spec, <<"one", "two", "three">>)
    IN  IF ok
        THEN [raised |-> "none",
              value |-> <<args.levels, args.is_recompile, args.is_debug,
                          args.num_procs, args.spec>>]
        ELSE [raised |-> "AssertionError", value |-> <<>>]

\* shifts x explored for criterion
CriterionShifts == {<<0, 0>>, <<1, -2>>}

\* draws explored for criterion, one row per draw
CriterionDraws == {[i \in 1 .. MaxDraws |-> <<2, 1, -1, 3>>], [i \in 1 .. MaxDraws |-> <<i, 3, 2 - i, -2>>]}

\* the model explored for criterion: one additional year of schooling allowed
CriterionEduBounds == {[edu_start |-> 10, edu_max |-> 11]}

CriterionShapes == {[base |-> 7, step |-> -3]}

\* values explored for sign
SignInputs == {PyInt(1), PyInt(-1), PyInt(0), PyInt(2), PyFloat(-1)}

\* x in [1, -1]: numbers compare by value
InOneMinusOne(x) == x.t \in {"bool", "int", "float"} /\ x.v \in {1, -1}

\* the disturbances of the first two choices shifted by x
transform_disturbances_ambiguity(eps_relevant, x) ==
    [i \in DOMAIN eps_relevant |->
        <<eps_relevant[i][1] + x[1], eps_relevant[i][2] + x[2],
          eps_relevant[i][3], eps_relevant[i][4]>>]

\* a variant that returns the simulated value whatever the sign
criterion_unsigned(x, num_draws, eps_relevant, period, k, payoffs_systematic, edu_max, edu_start, mapping_state_idx, states_all, num_periods, periods_emax, delta, sign) ==
    IF ~InOneMinusOne(sign)
    THEN [raised |-> "AssertionError", value |-> [num |-> NaN, den |-> 1], ran |-> <<>>]
    ELSE LET eps_relevant_emax == transform_disturbances_ambiguity(eps_relevant, x)
             simulated == simulate_emax(num_periods, num_draws, period, k,
                              eps_relevant_emax, payoffs_systematic, edu_max, edu_start,
                              periods_emax, states_all, mapping_state_idx, delta)
         IN  [raised |-> IF simulated.raised THEN "IndexError" ELSE "none",
              value |-> simulated.emax_simulated,
              ran |-> <<"transform_disturbances_ambiguity", "simulate_emax">>]

\* ran lists the collaborators called, in order
criterion(x, num_draws, eps_relevant, period, k, payoffs_systematic, edu_max, edu_start, mapping_state_idx, states_all, num_periods, periods_emax, delta, sign) ==
    IF ~InOneMinusOne(sign)
    THEN [raised |-> "AssertionError", value |-> [num |-> NaN, den |-> 1], ran |-> <<>>]
    ELSE LET eps_relevant_emax == transform_disturbances_ambiguity(eps_relevant, x)
             simulated == simulate_emax(num_periods, num_draws, period, k,
                              eps_relevant_emax, payoffs_systematic, edu_max, edu_start,
                              periods_emax, states_all, mapping_state_idx, delta)
         IN  [raised |-> IF simulated.raised THEN "IndexError" ELSE "none",
              value |-> [num |-> XMul(Fin(sign.v), simulated.emax_simulated.num),
                         den |-> simulated.emax_simulated.den],
              ran |-> <<"transform_disturbances_ambiguity", "simulate_emax">>]

\* criterion applied to the arguments args and sign
criterion_of(args, sign) ==
    criterion(args.x, args.num_draws, args.eps_relevant, args.period, args.k,
              args.payoffs_systematic, args.eb.edu_max, args.eb.edu_start,
              MappingStateIdx(args.num_periods, Cap(args.eb)),
              StatesAll(args.num_periods, Cap(args.eb)), args.num_periods,
              EmaxTable(args.num_periods, Cap(args.eb), args.shape), args.delta, sign)

\* no function of the toolkit has been called yet
ToolkitIdle == ~er.called /\ ~da.called /\ ~ge.called /\ ~cr.called

CallExtractResults ==
    /\ ToolkitIdle
    /\ \E level \in LevelInputs, choice \in ChoiceInputs, which \in WhichInputs,
          rslts \in ResultTables :
        er' = [called |-> TRUE, level |-> level, choice |-> choice, which |-> which,
               rslts |-> rslts, ret |-> _extract_results(level, choice, rslts, which)]
    /\ UNCHANGED <<da, ge, cr_prev, cr>>
    /\ UNCHANGED <<kernelVars, interpVars, harnessVars, exo, setupVars>>

CallDistributeArguments ==
    /\ ToolkitIdle
    /\ \E is_recompile \in FlagInputs, is_debug \in FlagInputs, num_procs \in ProcInputs,
          levels \in LevelsInputs, spec \in SpecInputs :
        LET args == [is_recompile |-> is_recompile, num_procs |-> num_procs,
                     is_debug |-> is_debug, levels |-> levels, spec |-> spec]
        IN  da' = [called |-> TRUE, args |-> args, ret |-> distribute_arguments(args)]
    /\ UNCHANGED <<er, ge, cr_prev, cr>>
    /\ UNCHANGED <<kernelVars, interpVars, harnessVars, exo, setupVars>>

CallGetElements ==
    /\ ToolkitIdle
    /\ \E choice \in ChoiceInputs, rslts \in ElementTables :
        ge' = [called |-> TRUE, choice |-> choice, rslts |-> rslts,
               rslts_after |-> rslts, ret |-> get_elements(choice, rslts)]
    /\ UNCHANGED <<er, da, cr_prev, cr>>
    /\ UNCHANGED <<kernelVars, interpVars, harnessVars, exo, setupVars>>

\* the arguments explored for criterion, sign apart: k is a state of the period
CriterionArgs ==
    UNION {{[x |-> x, num_draws |-> num_draws, eps_relevant |-> eps_relevant,
             period |-> period, k |-> k, payoffs_systematic |-> <<2, 3, 1, 0>>,
             eb |-> eb, num_periods |-> NumPeriods, shape |-> shape, delta |-> delta] :
               x \in CriterionShifts, num_draws \in 1 .. MaxDraws,
               eps_relevant \in CriterionDraws, shape \in CriterionShapes,
               delta \in {0, 1}, k \in DOMAIN StatesAll(NumPeriods, Cap(eb))[period]} :
           period \in Periods(NumPeriods), eb \in CriterionEduBounds}

\* a call of criterion with any sign: the first with any of the arguments
\* explored, the second with the arguments of a first call made with sign = 1
CallCriterion ==
    /\ ~er.called /\ ~da.called /\ ~ge.called
    /\ ~cr_prev.called
    /\ cr.called => cr.sign = PyInt(1)
    /\ \E sign \in SignInputs, args \in (IF cr.called THEN {cr.args} ELSE CriterionArgs) :
        cr' = [called |-> TRUE, args |-> args, sign |-> sign,
               ret |-> criterion_of(args, sign)]
    /\ cr_prev' = cr
    /\ UNCHANGED <<er, da, ge>>
    /\ UNCHANGED <<kernelVars, interpVars, harnessVars, exo, setupVars>>

InitToolkit == er = NoCall /\ da = NoCall /\ ge = NoCall /\ cr_prev = NoCall /\ cr = NoCall

NextToolkit == CallExtractResults \/ CallDistributeArguments \/ CallGetElements

NextCriterion == CallCriterion

---------------------------------------------------------------------------
Init == InitKernel /\ InitInterp /\ InitHarness /\ InitExog /\ InitToolkit /\ InitSetup

\* the initial states of each specification: its own component starts in any
\* of its initial states, the others in a fixed one
InitOfKernel == InitKernel /\ QuietInterp /\ QuietHarness /\ InitExog /\ InitToolkit /\ QuietSetup

InitOfInterp == InitKernel /\ InitInterp /\ QuietHarness /\ InitExog /\ InitToolkit /\ QuietSetup

InitOfReport == InitKernel /\ QuietInterp /\ InitHarness /\ InitExog /\ InitToolkit /\ QuietSetup

InitOfRun == InitKernel /\ QuietInterp /\ QuietHarness /\ InitExog /\ InitToolkit /\ QuietSetup

InitOfExog == InitKernel /\ QuietInterp /\ QuietHarness /\ InitExog /\ InitToolkit /\ QuietSetup

InitOfToolkit == InitKernel /\ QuietInterp /\ QuietHarness /\ InitExog /\ InitToolkit /\ QuietSetup

InitOfCriterion == InitKernel /\ QuietInterp /\ QuietHarness /\ InitExog /\ InitToolkit /\ QuietSetup

InitOfSetup == InitKernel /\ QuietInterp /\ QuietHarness /\ InitExog /\ InitToolkit /\ InitSetup

SpecKernel == InitOfKernel /\ [][NextKernel]_vars

SpecInterp == InitOfInterp /\ [][NextInterp]_vars

SpecReport == InitOfReport /\ [][NextReport]_vars

SpecRun == InitOfRun /\ [][NextRun]_vars

SpecExog == InitOfExog /\ [][NextExog]_vars

SpecToolkit == InitOfToolkit /\ [][NextToolkit]_vars

SpecCriterion == InitOfCriterion /\ [][NextCriterion]_vars

SpecSetup == InitOfSetup /\ [][NextSetup]_vars

Next == NextKernel \/ NextInterp \/ NextReport \/ NextRun \/ NextExog \/ NextToolkit \/ NextCriterion \/ NextSetup

Spec == Init /\ [][Next]_vars

---------------------------------------------------------------------------
(* Claims about the kernel.                                                *)

Zeros == [j \in 1 .. 4 |-> Fin(0)]

\* C1: in the last period (period = num_periods - 1) get_total_value returns
\* future_payoffs = [0, 0, 0, 0] and total_payoffs = payoffs_ex_post, for every
\* state, draw and delta (0 included), and reads no entry of emax or
\* mapping_state_idx
C1_TerminalPeriod ==
    (tv.called /\ tv.period = tv.num_periods - 1) =>
        /\ ~tv.ret.raised
        /\ tv.ret.future_payoffs = Zeros
        /\ tv.ret.total_payoffs = tv.ret.payoffs_ex_post
        /\ tv.ret.reads = {}

\* a call for the last period of a model with several periods and a myopic agent
C1_Witness ==
    /\ tv.called
    /\ tv.num_periods > 1
    /\ tv.period = tv.num_periods - 1
    /\ tv.delta = 0
    /\ tv.ret.total_payoffs = tv.ret.payoffs_ex_post

\* the state of the call has reached the maximum level of education
AtEduMax == tv.called /\ tv.state[3] = tv.edu_max - tv.edu_start

\* C2 as stated: for a state with edu = edu_max - edu_start the future payoff of
\* schooling is -inf, and with delta = 0 its total payoff is -inf and not NaN
C2_AsStated ==
    AtEduMax =>
        /\ tv.ret.future_payoffs[3] = NegInf
        /\ (tv.delta = 0 => tv.ret.total_payoffs[3] = NegInf)

\* C2 amended: the same in every period but the last; in the last period all
\* four future payoffs are 0
C2_EduMaxBeforeLastPeriod ==
    (AtEduMax /\ tv.period # tv.num_periods - 1) =>
        /\ ~tv.ret.raised
        /\ tv.ret.future_payoffs[3] = NegInf
        /\ (tv.delta = 0 =>
                /\ tv.ret.total_payoffs[3] = NegInf
                /\ ~IsNaN(tv.ret.total_payoffs[3]))

\* a myopic call before the last period for a state at the maximum education
C2_Witness ==
    /\ AtEduMax
    /\ tv.period # tv.num_periods - 1
    /\ tv.delta = 0
    /\ tv.ret.total_payoffs[3] = NegInf

\* the greatest of four values none of which is NaN
MaxOfChoices(t) == CHOOSE m \in {t[j] : j \in 1 .. 4} : \A j \in 1 .. 4 : ~XGt(t[j], m)

\* max over the choices of the total payoffs of the simulate_emax call under
\* the disturbances of draw i (counted from 0)
DrawMaximum(i) ==
    MaxOfChoices(
        get_total_value(se.period, se.num_periods, se.delta, se.payoffs_ex_ante,
            se.eps_relevant[i + 1], se.edu_max, se.edu_start,
            MappingStateIdx(se.num_periods, se.edu_max - se.edu_start),
            EmaxTable(se.num_periods, se.edu_max - se.edu_start, se.shape), se.k,
            StatesAll(se.num_periods, se.edu_max - se.edu_start)).total_payoffs)

RECURSIVE SumOfMaxima(_)
SumOfMaxima(n) == IF n = 0 THEN 0 ELSE SumOfMaxima(n - 1) + DrawMaximum(n - 1).v

\* C3: the first value simulate_emax returns is the arithmetic mean, over the
\* draws 0 .. num_draws - 1, of the maximum over the four choices of the total
\* payoffs under that draw: num / den = (sum of the maxima) / num_draws
C3_MeanOfMaxima ==
    se.called =>
        /\ ~se.ret.raised
        /\ IsFinite(se.ret.emax_simulated.num)
        /\ se.ret.emax_simulated.den > 0
        /\ se.ret.emax_simulated.num.v * se.num_draws
              = se.ret.emax_simulated.den * SumOfMaxima(se.num_draws)

\* a call with two draws whose maxima differ, before the last period
C3_Witness ==
    /\ se.called
    /\ se.num_draws = 2
    /\ se.period # se.num_periods - 1
    /\ DrawMaximum(0) # DrawMaximum(1)
    /\ se.ret.emax_simulated.num.v = DrawMaximum(0).v + DrawMaximum(1).v

---------------------------------------------------------------------------
(* Claims about the interpolation layer.                                   *)

\* C4: _predict_with_linear_model returns, for every state flagged
\* not_interpolated, endogenous + max_value_functions at that state, whatever
\* the fitted coefficients, and for every other state the regression
\* prediction exogenous . beta clipped below at 0, plus max_value_functions
C4_ExactValuesOverride ==
    pw.called =>
        \A s \in 1 .. Len(pw.exogenous) :
            IF pw.not_interpolated[s]
            THEN pw.ret.predictions[s]
                    = XAdd(pw.endogenous[rank_in(pw.not_interpolated, s)],
                           pw.max_value_functions[s])
            ELSE LET fitted == dot(pw.exogenous[s], pw.ret.beta)
                     clipped == IF IsFinite(fitted) /\ fitted.v < 0 THEN Fin(0)
                                ELSE fitted
                 IN  pw.ret.predictions[s] = XAdd(clipped, pw.max_value_functions[s])

\* a call with a simulated state whose exact value differs from what the
\* regression predicts for it, and an interpolated state whose prediction is
\* clipped
C4_Witness ==
    /\ pw.called
    /\ \E s \in 1 .. Len(pw.exogenous) :
        /\ pw.not_interpolated[s]
        /\ pw.ret.predictions[s]
              # XAdd(clip_at_zero(dot(pw.exogenous[s], pw.ret.beta)),
                     pw.max_value_functions[s])
    /\ \E s \in 1 .. Len(pw.exogenous) :
        /\ ~pw.not_interpolated[s]
        /\ XGt(Fin(0), dot(pw.exogenous[s], pw.ret.beta))
        /\ pw.ret.predictions[s] = pw.max_value_functions[s]

\* the states a call of _get_not_interpolated_indicator flagged
Flagged(c) == {s \in 1 .. Len(c.not_interpolated) : c.not_interpolated[s]}

SameArguments(c, d) ==
    /\ c.seed = d.seed
    /\ c.n_states = d.n_states
    /\ c.interpolation_points = d.interpolation_points

---------------------------------------------------------------------------
(* Claims about the scalability harness.                                   *)

\* how often the header block occurs in a sequence of lines
HeaderCount(lines) ==
    Cardinality({i \in 1 .. Len(lines) - 2 : SubSeq(lines, i, i + 2) = HeaderBlock})

\* the report file after the j-th call of record_information
ReportAfter(j) == IF j = Len(ri_log) THEN reports[ri_log[j].dir] ELSE ri_log[j + 1].before

\* C6: after n >= 1 calls of record_information in one directory, with or
\* without a report file at the start, the file holds the header block exactly
\* once, only a call that finds the file absent writes it, and every call
\* appends exactly one row: the rows are in call order and none is overwritten
C6_HeaderOnceRowPerCall ==
    Len(ri_log) >= 1 =>
        /\ HeaderCount(reports[<<>>].lines) = 1
        /\ \A j \in 1 .. Len(ri_log) :
            /\ ri_log[j].found_absent = ~ri_log[j].before.exists
            /\ ReportAfter(j).exists
            /\ ReportAfter(j).lines =
                  ri_log[j].before.lines
                    \o (IF ri_log[j].found_absent THEN HeaderBlock ELSE <<>>)
                    \o <<Row(ri_log[j].start_time, ri_log[j].finish_time,
                             ri_log[j].num_slaves)>>

\* three calls, the first of which found no file, with rows that differ
C6_Witness ==
    /\ Len(ri_log) = 3
    /\ ri_log[1].found_absent
    /\ ~ri_log[2].found_absent
    /\ ri_log[1].num_slaves # ri_log[2].num_slaves
    /\ Len(reports[<<>>].lines) = 6

\* the number of the loop pass run is in: the mkdir statements executed so far
LoopPass == Cardinality({i \in 1 .. run.pc :
                i <= Len(Statements(run.has_num_periods, run.grid_slaves))
                /\ Statements(run.has_num_periods, run.grid_slaves)[i].op = "mkdir_chdir"})

AtEstimate == Running /\ Current.op = "estimate"

\* C10: when run calls estimate for the worker count num_slaves of grid_slaves,
\* the specification has num_procs = num_slaves + 1 and is_parallel true iff
\* num_slaves > 1, and write_out has persisted these values
C10_ProcessCountAtEstimate ==
    AtEstimate =>
        /\ run.num_slaves = run.grid_slaves[LoopPass]
        /\ respy_obj.attr.num_procs = run.num_slaves + 1
        /\ respy_obj.attr.is_parallel = (run.num_slaves > 1)
        /\ disk[cwd] = respy_obj.attr
        /\ cwd = Append(OutDir, run.num_slaves)

\* run is about to call estimate for one worker in the second pass of its loop
C10_Witness ==
    /\ AtEstimate
    /\ LoopPass = 2
    /\ run.num_slaves = 1
    /\ respy_obj.attr.num_procs = 2
    /\ ~respy_obj.attr.is_parallel
    /\ disk[cwd].num_procs = 2

---------------------------------------------------------------------------
(* Claims about the continuation values and the toolkit.                   *)

\* the continuation values read all equal num / den
AllContinuationValuesAre(num, den) ==
    \A d \in DenseIndices(exo.n_procs), s \in ExogStates, choice \in ExogChoices :
        exo.continuation_values[d][s][choice].num * den
            = num * exo.continuation_values[d][s][choice].den

ReadAfterForcing == exo.stage = "read" /\ exo.forced /\ exo.period < ExogPeriods - 1

\* C7: with the expected value functions of every dense sub-state-space forced
\* to 1, 2 (one process) or 1, 2, 3, 4 (two processes), get_continuation_values
\* of every period before the last returns, for every dense sub-state-space
\* and state, 0.9 * 1 + 0.1 * 2 = 1.1 and
\* 0.72 * 1 + 0.18 * 2 + 0.08 * 3 + 0.02 * 4 = 1.4
C7_WeightedContinuationValues ==
    ReadAfterForcing =>
        IF exo.n_procs = 1 THEN AllContinuationValuesAre(11, 10)
        ELSE AllContinuationValuesAre(14, 10)

\* the continuation values of the first period of the model with two
\* processes were read after forcing, and are 140 / 100
C7_Witness ==
    /\ ReadAfterForcing
    /\ exo.n_procs = 2
    /\ exo.period = 0
    /\ exo.continuation_values[<<1, 0>>][1]["fishing"] = [num |-> 140, den |-> 100]

ValidExtractArguments ==
    /\ er.level \in {0, 1, 2}
    /\ er.choice \in {"Occupation A", "Occupation B", "School", "Home"}
    /\ er.which \in {"lower", "upper"}

\* the position of a choice in the four-item list, counted from 1
ChoicePosition(choice) ==
    CASE choice = "Occupation A" -> 1
      [] choice = "Occupation B" -> 2
      [] choice = "School" -> 3
      [] choice = "Home" -> 4

\* C8: _extract_results fails with an assertion failure, without reading rslts,
\* when level is not in {0.0, 0.01, 0.02}, choice not one of the four choices
\* or which not 'lower' or 'upper'; for valid arguments it returns
\* rslts[level][index of choice][0 for 'lower', 1 for 'upper']
C8_ExtractResults ==
    er.called =>
        IF ValidExtractArguments
        THEN /\ er.ret.raised = "none"
             /\ er.ret.value =
                  er.rslts[er.level][ChoicePosition(er.choice)]
                          [IF er.which = "lower" THEN 1 ELSE 2]
        ELSE /\ er.ret.raised = "AssertionError"
             /\ er.ret.reads = {}

\* a call with a valid level and choice and a bound kind that is neither
\* 'lower' nor 'upper' was refused
C8_Witness ==
    /\ er.called
    /\ er.level = 2
    /\ er.choice = "School"
    /\ er.which = "middle"
    /\ er.ret.raised = "AssertionError"

\* the arguments break one of the constraints C9 names
ArgumentsViolateConstraints ==
    \/ da.args.levels.t # "list"
    \/ \E i \in 1 .. Len(da.args.levels.v) : da.args.levels.v[i] < 0
    \/ da.args.is_recompile.t # "bool"
    \/ da.args.is_debug.t # "bool"
    \/ ~(IsInstanceInt(da.args.num_procs) /\ da.args.num_procs.v > 0)
    \/ da.args.spec \notin {"one", "two", "three"}

\* C9: distribute_arguments fails with an assertion failure whenever levels is
\* not a list or holds a negative number, is_recompile or is_debug is not a
\* boolean, num_procs is not an integer > 0, or spec is not 'one', 'two' or
\* 'three'
C9_AsStated ==
    (da.called /\ ArgumentsViolateConstraints) => da.ret.raised = "AssertionError"

\* C11: get_elements(choice, rslts) returns, for the three levels in the order
\* 0.0, 0.01, 0.02, upper = the stored upper bound of the choice / 1000,
\* lower = its stored lower bound / 1000 and increments = upper - lower
\* element by element; the three outputs have length 3 and rslts is unchanged
C11_GetElements ==
    (ge.called /\ ge.choice \in {"Occupation A", "Occupation B", "School", "Home"}
        /\ DOMAIN ge.rslts = {0, 1, 2}) =>
        /\ ge.ret.raised = "none"
        /\ Len(ge.ret.upper) = 3 /\ Len(ge.ret.lower) = 3 /\ Len(ge.ret.increments) = 3
        /\ \A i \in 1 .. 3 :
            /\ ge.ret.upper[i].num = ge.rslts[i - 1][ChoicePosition(ge.choice)][2]
            /\ ge.ret.upper[i].den = 1000
            /\ ge.ret.lower[i].num = ge.rslts[i - 1][ChoicePosition(ge.choice)][1]
            /\ ge.ret.lower[i].den = 1000
            /\ ge.ret.increments[i].num = ge.ret.upper[i].num - ge.ret.lower[i].num
            /\ ge.ret.increments[i].den = 1000
        /\ ge.rslts_after = ge.rslts

\* get_elements was called for 'School' on a dictionary whose bounds differ
\* at every level, and returned
C11_Witness ==
    /\ ge.called
    /\ ge.choice = "School"
    /\ ge.ret.raised = "none"
    /\ \A i \in 1 .. 3 : ge.ret.increments[i].num > 0
    /\ ge.ret.upper[3].num = 90000 - 33 + 4

\* the first output of simulate_emax on the draws of call c transformed by x
SimulatedOnTransformedDraws(c) ==
    simulate_emax(c.args.num_periods, c.args.num_draws, c.args.period, c.args.k,
                  transform_disturbances_ambiguity(c.args.eps_relevant, c.args.x),
                  c.args.payoffs_systematic, c.args.eb.edu_max, c.args.eb.edu_start,
                  EmaxTable(c.args.num_periods, Cap(c.args.eb), c.args.shape),
                  StatesAll(c.args.num_periods, Cap(c.args.eb)),
                  MappingStateIdx(c.args.num_periods, Cap(c.args.eb)),
                  c.args.delta).emax_simulated

\* a is -b
IsNegationOf(a, b) == a.den = b.den /\ a.num = XMul(Fin(-1), b.num)

\* C12: criterion accepts only sign in {1, -1} and otherwise fails with an
\* assertion failure before the transform or the simulation runs; with
\* sign = 1 it returns the first output of simulate_emax on the transformed
\* draws, and with sign = -1, for the same other arguments, the negation of that
C12_CriterionSign ==
    /\ cr.called =>
        IF cr.sign.v \in {1, -1}
        THEN /\ cr.ret.raised = "none"
             /\ cr.sign.v = 1 => cr.ret.value = SimulatedOnTransformedDraws(cr)
             /\ cr.sign.v = -1 => IsNegationOf(cr.ret.value, SimulatedOnTransformedDraws(cr))
        ELSE cr.ret.raised = "AssertionError" /\ cr.ret.ran = <<>>
    /\ (cr.called /\ cr_prev.called /\ cr.sign.v = -1 /\ cr_prev.sign.v = 1) =>
        IsNegationOf(cr.ret.value, cr_prev.ret.value)

\* criterion returned a nonzero value for sign = 1 and then, for the same
\* other arguments and a nonzero shift, its negation for sign = -1
C12_Witness ==
    /\ cr.called /\ cr_prev.called
    /\ cr_prev.sign = PyInt(1) /\ cr.sign = PyInt(-1)
    /\ cr.args.x = <<1, -2>>
    /\ cr_prev.ret.raised = "none" /\ cr.ret.raised = "none"
    /\ IsFinite(cr.ret.value.num) /\ cr.ret.value.num.v < 0
    /\ cr_prev.ret.value.num.v = 0 - cr.ret.value.num.v

---------------------------------------------------------------------------
(* Claims about the calls run makes.                                       *)

\* the calls of unlock and lock before call i
LockCallsBefore(i) == {j \in 1 .. (i - 1) : events[j].call \in {"unlock", "lock"}}

\* the last of unlock and lock called before call i, "none" without one
LastLockCall(i) ==
    IF LockCallsBefore(i) = {} THEN "none"
    ELSE events[CHOOSE j \in LockCallsBefore(i) : \A k \in LockCallsBefore(i) : k <= j].call

\* C13: in run every set_attr comes between an unlock and the matching lock,
\* unlock and lock alternate starting with unlock, the specification is locked
\* at every call of simulate, write_out and estimate, and no attribute is
\* written while the object is locked
C13_GuardedMutation ==
    \A i \in 1 .. Len(events) :
        /\ events[i].call = "set_attr" => (LastLockCall(i) = "unlock" /\ ~events[i].refused)
        /\ events[i].call = "unlock" => LastLockCall(i) \in {"none", "lock"}
        /\ events[i].call = "lock" => LastLockCall(i) = "unlock"
        /\ events[i].call \in {"simulate", "write_out", "estimate"} =>
              (LastLockCall(i) = "lock" /\ events[i].is_locked)

\* run returned after the optional override of num_periods and two passes of
\* its loop: four unlocks, four locks and fourteen attribute writes
C13_Witness ==
    /\ run.status = "returned"
    /\ run.has_num_periods
    /\ Len(run.grid_slaves) = 2
    /\ Cardinality({i \in 1 .. Len(events) : events[i].call = "unlock"}) = 4
    /\ Cardinality({i \in 1 .. Len(events) : events[i].call = "lock"}) = 4
    /\ Cardinality({i \in 1 .. Len(events) : events[i].call = "set_attr"}) = 14

IsMilestone(e) == e.call \in {"simulate", "estimate", "record_information"}

\* the calls of simulate, estimate and record_information so far, in order
Milestones == SelectSeq(events, IsMilestone)

\* the j-th of these calls is the one run is to make at that position: simulate
\* with all overrides applied, then estimate and record_information for each
\* entry of grid_slaves in turn
MilestoneInOrder(j) ==
    IF j = 1
    THEN /\ Milestones[j].call = "simulate"
         /\ Milestones[j].attr.file_est = "../data.respy.dat"
         /\ \A key \in {"optimizer_options", "optimizer_used", "num_draws_emax",
                        "num_draws_prob", "num_agents_est", "num_agents_sim",
                        "scaling", "maxfun"} : Milestones[j].attr[key] = "spec_dict"
         /\ Milestones[j].attr.num_periods
                = (IF run.has_num_periods THEN "spec_dict" ELSE "ini")
    ELSE /\ j \div 2 <= Len(run.grid_slaves)
         /\ Milestones[j].call = (IF j % 2 = 0 THEN "estimate" ELSE "record_information")
         /\ Milestones[j].num_slaves = run.grid_slaves[j \div 2]
         /\ Milestones[j].call = "record_information" => Milestones[j].dir = OutDir

\* the report of the output directory holds the header and one row per call
\* of record_information, in call order, and no other directory got a report
RowsInCallOrder ==
    /\ \A i \in 1 .. Len(ri_log) :
        ri_log[i].dir = OutDir /\ ri_log[i].num_slaves = run.grid_slaves[i]
    /\ Len(ri_log) > 0 =>
        reports[OutDir].lines
            = HeaderBlock \o [i \in 1 .. Len(ri_log) |->
                                Row(ri_log[i].start_time, ri_log[i].finish_time,
                                    ri_log[i].num_slaves)]
    /\ reports[<<>>] = AbsentFile

\* run has made all its calls: one simulate, one estimate and one
\* record_information per entry of grid_slaves
AllMilestonesDone ==
    /\ Len(Milestones) = 1 + 2 * Len(run.grid_slaves)
    /\ Len(ri_log) = Len(run.grid_slaves)

RunStarted == run.status # "idle"

RunEnded == run.status \in {"returned", "raised"}

HasRepeatedEntry ==
    \E i, j \in 1 .. Len(run.grid_slaves) : i < j /\ run.grid_slaves[i] = run.grid_slaves[j]

\* C14 as stated: whatever grid_slaves is, run simulates once and then makes
\* one estimate and one record_information call per entry, in grid order
C14_AsStated ==
    RunEnded =>
        /\ AllMilestonesDone
        /\ \A j \in 1 .. Len(Milestones) : MilestoneInOrder(j)
        /\ RowsInCallOrder

\* C14: started without the output directory and with pairwise distinct
\* entries in grid_slaves, run returns, having simulated exactly once after the
\* overrides and before the first estimate, and having made for the entries of
\* grid_slaves in order one estimate and then one record_information call, so
\* that the report of the output directory holds one row per entry in grid
\* order; a repeated entry makes run raise at that entry, after the entries
\* before it were estimated and recorded in the same way
C14_OneRowPerEntryInOrder ==
    RunStarted =>
        /\ \A j \in 1 .. Len(Milestones) : MilestoneInOrder(j)
        /\ RowsInCallOrder
        /\ run.status = "returned" => AllMilestonesDone
        /\ run.status = "raised" => HasRepeatedEntry

\* run returned for the grid (2, 1): the report has the header and the rows of
\* two workers and then one
C14_Witness ==
    /\ run.status = "returned"
    /\ run.grid_slaves = <<2, 1>>
    /\ Len(Milestones) = 5
    /\ Len(reports[OutDir].lines) = Len(HeaderBlock) + 2
    /\ ri_log[1].num_slaves = 2 /\ ri_log[2].num_slaves = 1

---------------------------------------------------------------------------
(* Claims about the interpolation points and the seeds.                    *)

RECURSIVE SumOfPoints(_, _)
SumOfPoints(items, i) ==
    IF i > Len(items) THEN 0 ELSE items[i].points + SumOfPoints(items, i + 1)

\* C15: with d sub-state-spaces and the budget P, every sub-state-space gets
\* floor(P / d) or floor(P / d) + 1 points, the points sum to P, and those with
\* the extra point are the first P mod d in iteration order; without
\* sub-state-spaces the result is P
C15_EvenSplit ==
    sp.called =>
        LET P == sp.interpolation_points
            d == Len(sp.state_space.sub_state_spaces)
            items == sp.ret.interp_points
        IN  IF ~sp.state_space.has_sub_state_spaces
            THEN sp.ret.raised = "none" /\ items = P
            ELSE d >= 1 =>
                    /\ sp.ret.raised = "none"
                    /\ Len(items) = d
                    /\ \A i \in 1 .. d :
                        /\ items[i].dense_idx = sp.state_space.sub_state_spaces[i]
                        /\ items[i].points \in {P \div d, (P \div d) + 1}
                        /\ (items[i].points = (P \div d) + 1) <=> (i <= P % d)
                    /\ SumOfPoints(items, 1) = P

\* five points were split over three sub-state-spaces as 2, 2, 1
C15_Witness ==
    /\ sp.called
    /\ sp.interpolation_points = 5
    /\ Len(sp.state_space.sub_state_spaces) = 3
    /\ sp.state_space.has_sub_state_spaces
    /\ sp.ret.interp_points[1].points = 2
    /\ sp.ret.interp_points[2].points = 2
    /\ sp.ret.interp_points[3].points = 1

\* the number of elements call c is to take: one per sub-state-space, or one
Needed(c) ==
    IF gs_log[c].state_space.has_sub_state_spaces
    THEN Len(gs_log[c].state_space.sub_state_spaces)
    ELSE 1

RECURSIVE NeededBefore(_)
NeededBefore(c) == IF c = 1 THEN 0 ELSE NeededBefore(c - 1) + Needed(c - 1)

\* the (call, item) pairs of the log
Handed == {ci \in (1 .. Len(gs_log)) \X (1 .. MaxDense + 1) : ci[2] <= Len(gs_log[ci[1]].seed)}

\* C17: every call of _get_seeds_for_interpolation advances the shared
\* iterator by one element per sub-state-space (by one without
\* sub-state-spaces) and hands the elements out in iteration order; no element
\* goes to two (call, sub-state-space) pairs, and the seeds are determined by
\* the iterator the run started from and the calls made
C17_SeedsFromSharedIterator ==
    /\ \A c \in 1 .. Len(gs_log) :
        /\ gs_log[c].before = (IF c = 1 THEN [start |-> gs_log[1].before.start, taken |-> 0]
                               ELSE gs_log[c - 1].after)
        /\ gs_log[c].after.taken = gs_log[c].before.taken + Needed(c)
        /\ Len(gs_log[c].seed) = Needed(c)
        /\ \A i \in 1 .. Len(gs_log[c].seed) :
            /\ gs_log[c].seed[i].dense_idx
                  = (IF gs_log[c].state_space.has_sub_state_spaces
                     THEN gs_log[c].state_space.sub_state_spaces[i] ELSE <<>>)
            /\ gs_log[c].seed[i].seed.position = NeededBefore(c) + i - 1
            /\ gs_log[c].seed[i].seed.value
                  = gs_log[1].before.start + NeededBefore(c) + i - 1
    /\ \A a, b \in Handed :
        a # b => gs_log[a[1]].seed[a[2]].seed.position # gs_log[b[1]].seed[b[2]].seed.position
    /\ Len(gs_log) > 0 => seed_iter = gs_log[Len(gs_log)].after

\* after a call with two sub-state-spaces, a call without sub-state-spaces
\* got the third element of the iterator that starts at 40
C17_Witness ==
    /\ Len(gs_log) = 2
    /\ gs_log[1].state_space.has_sub_state_spaces
    /\ Len(gs_log[1].state_space.sub_state_spaces) = 2
    /\ ~gs_log[2].state_space.has_sub_state_spaces
    /\ gs_log[2].seed[1].seed = [position |-> 2, value |-> 42]
    /\ seed_iter.taken = 3

---------------------------------------------------------------------------
(* Claims about the future payoffs of the kernel.                          *)

\* the state of the get_total_value call that choice j leads to
Candidate(j) ==
    CASE j = 1 -> <<tv.state[1] + 1, tv.state[2], tv.state[3], 0>>
      [] j = 2 -> <<tv.state[1], tv.state[2] + 1, tv.state[3], 0>>
      [] j = 3 -> <<tv.state[1], tv.state[2], tv.state[3] + 1, 1>>
      [] j = 4 -> <<tv.state[1], tv.state[2], tv.state[3], 0>>

\* the choices of the call that have a candidate state
Admissible == {j \in 1 .. 4 : j # 3 \/ tv.state[3] < tv.edu_max - tv.edu_start}

\* the index mapping_state_idx holds for the candidate of choice j
CandidateIdx(j) ==
    MappingStateIdx(tv.num_periods, tv.edu_max - tv.edu_start)[tv.period + 1][Candidate(j)]

\* the four future payoffs are emax[period + 1, .] at the candidates' indices,
\* -inf for schooling at the maximum education, and nothing else was read
FuturePayoffsFromNextPeriod ==
    /\ ~tv.ret.raised
    /\ \A j \in 1 .. 4 :
        tv.ret.future_payoffs[j]
            = (IF j \in Admissible
               THEN EmaxTable(tv.num_periods, tv.edu_max - tv.edu_start,
                              tv.shape)[tv.period + 1][CandidateIdx(j)]
               ELSE NegInf)
    /\ tv.ret.reads = {<<tv.period + 1, CandidateIdx(j)>> : j \in Admissible}

NonTerminalCall == tv.called /\ tv.period # tv.num_periods - 1

\* C16 as stated: in a period before the last the future payoffs are those of
\* the four candidate states in emax[period + 1, .], whatever edu_lagged is,
\* and total_payoffs = payoffs_ex_post + delta * future_payoffs
C16_AsStated ==
    NonTerminalCall =>
        /\ FuturePayoffsFromNextPeriod
        /\ \A j \in 1 .. 4 :
            tv.ret.total_payoffs[j]
                = XAdd(tv.ret.payoffs_ex_post[j], XMul(Fin(tv.delta), tv.ret.future_payoffs[j]))

\* C16 amended: the same, except that for delta = 0 a choice whose future
\* payoff is -inf has the total payoff -inf
C16_FuturePayoffsAndTotals ==
    NonTerminalCall =>
        /\ FuturePayoffsFromNextPeriod
        /\ \A j \in 1 .. 4 :
            tv.ret.total_payoffs[j]
                = (IF tv.delta = 0 /\ IsNegInf(tv.ret.future_payoffs[j]) THEN NegInf
                   ELSE XAdd(tv.ret.payoffs_ex_post[j],
                             XMul(Fin(tv.delta), tv.ret.future_payoffs[j])))

\* a call before the last period for a state with the lagged-education flag
\* set and a further year of schooling allowed: four entries of emax were read
C16_Witness ==
    /\ NonTerminalCall
    /\ tv.state[4] = 1
    /\ tv.state[3] < tv.edu_max - tv.edu_start
    /\ tv.delta = 2
    /\ Cardinality(tv.ret.reads) = 4
    /\ \A j \in 1 .. 4 : IsFinite(tv.ret.total_payoffs[j])

---------------------------------------------------------------------------
(* Claims about the lower bound of the predictions.                        *)

\* a >= b; false when either is NaN
XGe(a, b) == ~IsNaN(a) /\ ~IsNaN(b) /\ ~XGt(b, a)

\* the states of the call that are interpolated
Interpolated == {s \in 1 .. Len(pw.exogenous) : ~pw.not_interpolated[s]}

\* C18 as stated: whatever the fitted coefficients, the value returned for an
\* interpolated state is at least the state's max_value_functions
C18_AsStated ==
    pw.called =>
        \A s \in Interpolated : XGe(pw.ret.predictions[s], pw.max_value_functions[s])

\* C18 amended: the value returned for an interpolated state is at least the
\* state's max_value_functions unless the regression prediction exogenous . beta
\* of the state is NaN, as coefficients that are not finite can make it, and is
\* NaN then; for a not-interpolated state the value is below
\* max_value_functions exactly when its endogenous value is negative
C18_LowerBoundUnlessNaN ==
    pw.called =>
        /\ \A s \in Interpolated :
            IF IsNaN(dot(pw.exogenous[s], pw.ret.beta))
            THEN IsNaN(pw.ret.predictions[s])
            ELSE XGe(pw.ret.predictions[s], pw.max_value_functions[s])
        /\ \A s \in (1 .. Len(pw.exogenous)) \ Interpolated :
            XGt(pw.max_value_functions[s], pw.ret.predictions[s])
                <=> XGt(Fin(0), pw.endogenous[rank_in(pw.not_interpolated, s)])
        /\ (\A c \in 1 .. Len(pw.ret.beta) : IsFinite(pw.ret.beta[c])) =>
              \A s \in Interpolated : ~IsNaN(dot(pw.exogenous[s], pw.ret.beta))

\* a call with finite coefficients in which an interpolated state was lifted
\* to its max_value_functions and a not-interpolated state with a negative
\* endogenous value lies below its max_value_functions
C18_Witness ==
    /\ pw.called
    /\ \A c \in 1 .. Len(pw.ret.beta) : IsFinite(pw.ret.beta[c])
    /\ \E s \in Interpolated :
        /\ XGt(Fin(0), dot(pw.exogenous[s], pw.ret.beta))
        /\ pw.ret.predictions[s] = pw.max_value_functions[s]
    /\ \E s \in (1 .. Len(pw.exogenous)) \ Interpolated :
        XGt(pw.max_value_functions[s], pw.ret.predictions[s])

====
